---- MODULE Spec2Model ----
(***************************************************************************)
(* Memory-management core of the SKOS kernel (src/src/kernel/memory.c):    *)
(* the bitmap frame allocator, the two-level paging layer and the kernel   *)
(* heap.                                                                   *)
(*                                                                         *)
(* 32-bit words.  The program computes in uint32_t / size_t (32 bits on    *)
(* i386).  A word w is written here as the pair <<w \div 4096, w % 4096>>  *)
(* (20-bit page number, 12-bit offset); every arithmetic operator below    *)
(* wraps modulo 2^32 exactly as the C operators do.                        *)
(***************************************************************************)
EXTENDS Integers, Sequences, FiniteSets, TLC

(* ---------------------------------------------------------------------- *)
(* Program constants (memory.h)                                            *)
(* ---------------------------------------------------------------------- *)
PAGE_SIZE == 4096
\* number of 4 KiB pages in the 32-bit address space (2^32 / PAGE_SIZE)
NUM_PAGES == 1048576
\* entries of a page directory / page table
TABLE_ENTRIES == 1024
PAGE_PRESENT == 1
PAGE_WRITABLE == 2
PAGE_USER == 4
MULTIBOOT_MEMORY_AVAILABLE == 1
MULTIBOOT_MEMORY_RESERVED == 2
\* sizeof(heap_block_t): packed, 4 + 4 + 1 + 4 + 4 bytes
HEADER_SIZE == 17

(* ---------------------------------------------------------------------- *)
(* 32-bit words                                                            *)
(* ---------------------------------------------------------------------- *)
\* the word with value n, for 0 <= n < 2^31
U32(n) == <<(n \div PAGE_SIZE) % NUM_PAGES, n % PAGE_SIZE>>
\* the word page * 4096 + off
Word(page, off) == <<page % NUM_PAGES, off % PAGE_SIZE>>
ZERO32 == <<0, 0>>

\* a + b (mod 2^32)
Add32(a, b) ==
    LET o == a[2] + b[2]
    IN  <<(a[1] + b[1] + (o \div PAGE_SIZE)) % NUM_PAGES, o % PAGE_SIZE>>
\* a - b (mod 2^32)
Sub32(a, b) ==
    LET o == a[2] - b[2]
    IN  <<(a[1] - b[1] + (o \div PAGE_SIZE)) % NUM_PAGES, o % PAGE_SIZE>>
\* a * b (mod 2^32), by 10- and 12-bit parts so that no partial product exceeds
\* 31 bits
Mul32(a, b) ==
    LET MulMod(x, y) ==
            ((((x \div 1024) * y) % 1024) * 1024 + (x % 1024) * y) % NUM_PAGES
        o == a[2] * b[2]
    IN  <<((((a[1] % 256) * (b[1] % 256)) % 256) * PAGE_SIZE
           + MulMod(a[1], b[2]) + MulMod(b[1], a[2]) + (o \div PAGE_SIZE)) % NUM_PAGES,
          o % PAGE_SIZE>>
\* unsigned comparisons
Lt32(a, b) == a[1] < b[1] \/ (a[1] = b[1] /\ a[2] < b[2])
Le32(a, b) == a = b \/ Lt32(a, b)
Gt32(a, b) == Lt32(b, a)
Ge32(a, b) == Le32(b, a)

\* bitwise OR / AND of two naturals
RECURSIVE BitOr(_, _)
BitOr(x, y) ==
    IF x = 0 THEN y
    ELSE IF y = 0 THEN x
    ELSE (IF x % 2 = 1 \/ y % 2 = 1 THEN 1 ELSE 0) + 2 * BitOr(x \div 2, y \div 2)
RECURSIVE BitAnd(_, _)
BitAnd(x, y) ==
    IF x = 0 \/ y = 0 THEN 0
    ELSE (IF x % 2 = 1 /\ y % 2 = 1 THEN 1 ELSE 0) + 2 * BitAnd(x \div 2, y \div 2)
Or32(a, b) == <<BitOr(a[1], b[1]), BitOr(a[2], b[2])>>

\* w & PAGE_ALIGN_MASK (0xFFFFF000) and w & PAGE_OFFSET_MASK (0x00000FFF)
PageAlign(w) == <<w[1], 0>>
PageOffset(w) == <<0, w[2]>>
\* w / PAGE_SIZE, w % PAGE_SIZE and w * PAGE_SIZE (the product wraps)
PageOf(w) == w[1]
PageMul(n) == <<n % NUM_PAGES, 0>>
\* (w + 3) & ~3
RoundUp4(w) ==
    LET s == Add32(w, <<0, 3>>)
    IN  <<s[1], s[2] - (s[2] % 4)>>
\* (addr + alignment - 1) & ~(alignment - 1), for alignment = sizeof(uint32_t)
align_up(addr, alignment) ==
    LET s == Add32(addr, U32(alignment - 1))
    IN  <<s[1], s[2] - (s[2] % alignment)>>
\* the four bytes of a word, least significant first (x86 is little-endian)
Bytes32(w) ==
    <<w[2] % 256,
      (w[2] \div 256) + 16 * (w[1] % 16),
      (w[1] \div 16) % 256,
      w[1] \div 4096>>
FromBytes32(b) ==
    <<(b[2] \div 16) + 16 * b[3] + 4096 * b[4], b[1] + 256 * (b[2] % 16)>>


(* ---------------------------------------------------------------------- *)
(* Evaluation order.  Then(v, F) is F(v) with v evaluated once, before F:  *)
(* the statements of a C function run in order, each on the result of the  *)
(* ones before it.                                                         *)
(* ---------------------------------------------------------------------- *)
Then(v, F(_)) == CHOOSE y \in {F(z) : z \in {v}} : TRUE

(* ---------------------------------------------------------------------- *)
(* Sparse arrays: a function on the indices that hold a non-default value  *)
(* ---------------------------------------------------------------------- *)
Put(f, k, v) == [i \in (DOMAIN f) \cup {k} |-> IF i = k THEN v ELSE f[i]]
Del(f, k) == [i \in (DOMAIN f) \ {k} |-> f[i]]
Get(f, k, default) == IF k \in DOMAIN f THEN f[k] ELSE default
Store(f, k, v, default) == IF v = default THEN Del(f, k) ELSE Put(f, k, v)
EmptyMap == [i \in {} |-> 0]
MinOf(S) == CHOOSE m \in S : \A n \in S : m <= n

\* A counted loop with a break: for (i = lo; i < hi && !acc.stop; i++)
\* acc = Step(acc, i).  The range is halved, the left half run first, so that
\* the nesting of the evaluation stays logarithmic in the iteration count.
RECURSIVE Iterate(_, _, _, _)
Iterate(Step(_, _), acc, lo, hi) ==
    IF hi <= lo \/ acc.stop THEN acc
    ELSE IF hi - lo = 1 THEN Step(acc, lo)
    ELSE Then(Iterate(Step, acc, lo, (lo + hi) \div 2), LAMBDA left :
            IF left.stop THEN left ELSE Iterate(Step, left, (lo + hi) \div 2, hi))

(* ---------------------------------------------------------------------- *)
(* Boot information handed over by the boot loader.  kernel_end is the     *)
(* linker symbol that ends the kernel image (the image starts at 1 MiB).   *)
(* ---------------------------------------------------------------------- *)
KERNEL_END == 1060864
\* a memory-map record: base and length are the low 32 bits of the 64-bit
\* fields, base_high is base_addr_high
Region(base, length, type) ==
    [base |-> base, base_high |-> 0, length |-> length, type |-> type]

(* ---------------------------------------------------------------------- *)
(* Frame bitmap allocator.  phys_allocator.bitmap is the set of the frame  *)
(* indices whose bit is 1.                                                 *)
(* ---------------------------------------------------------------------- *)
\* end = start + size of one record (line 132), and highest_address (lines 134-137)
RegionEnd(r) == Add32(r.base, r.length)
RECURSIVE HighestAddress(_, _, _)
HighestAddress(mmap, i, highest) ==
    IF i > Len(mmap) THEN highest
    ELSE Then(IF /\ mmap[i].base_high = 0
                 /\ mmap[i].type = MULTIBOOT_MEMORY_AVAILABLE
                 /\ Gt32(RegionEnd(mmap[i]), highest)
              THEN RegionEnd(mmap[i]) ELSE highest,
              LAMBDA h : HighestAddress(mmap, i + 1, h))

\* the frames one non-available record marks: start_page + i for
\* i < num_pages while start_page + i < total_pages (lines 168-171)
RegionPages(r, total_pages) ==
    LET start_page == PageOf(r.base)
        num_pages == PageOf(Add32(r.length, U32(PAGE_SIZE - 1)))
    IN  {p \in start_page .. (start_page + num_pages - 1) : p < total_pages}

\* second pass over the memory map (lines 161-181): every frame of a
\* non-available record gets its bit set and used_pages incremented, whether
\* or not the bit was set already
RECURSIVE MarkUnavailable(_, _, _)
MarkUnavailable(mmap, i, pa) ==
    IF i > Len(mmap) THEN pa
    ELSE IF mmap[i].base_high = 0 /\ mmap[i].type # MULTIBOOT_MEMORY_AVAILABLE
    THEN Then(RegionPages(mmap[i], pa.total_pages), LAMBDA pages :
         Then([pa EXCEPT !.bitmap = @ \cup pages,
                         !.used_pages = @ + Cardinality(pages)],
              LAMBDA pa1 : MarkUnavailable(mmap, i + 1, pa1)))
    ELSE MarkUnavailable(mmap, i + 1, pa)

\* lines 183-205: a range of frames is marked, counting only the bits that
\* were clear
MarkRange(pa, from, to) ==
    Then({p \in from .. (to - 1) : p < pa.total_pages /\ p \notin pa.bitmap},
         LAMBDA pages : [pa EXCEPT !.bitmap = @ \cup pages,
                                   !.used_pages = @ + Cardinality(pages)])

physical_memory_init(mmap) ==
    Then(PageOf(HighestAddress(mmap, 1, ZERO32)), LAMBDA total_pages :
    Then(MarkUnavailable(mmap, 1, [bitmap |-> {}, total_pages |-> total_pages,
                                   used_pages |-> 0, first_free_page |-> 0]),
         LAMBDA pa1 :
    LET bitmap_size == (total_pages + 31) \div 32
        bitmap_addr == align_up(U32(KERNEL_END), 4)
        kernel_start_page == 1048576 \div PAGE_SIZE
        kernel_end_page ==
            PageOf(Add32(Add32(bitmap_addr, U32(bitmap_size * 4)), U32(PAGE_SIZE - 1)))
        first_mb_pages == 1048576 \div PAGE_SIZE
    IN  Then(MarkRange(pa1, kernel_start_page, kernel_end_page), LAMBDA pa2 :
        Then(MarkRange(pa2, 0, first_mb_pages), LAMBDA pa3 :
             [pa3 EXCEPT !.first_free_page = first_mb_pages]))))

\* allocate_physical_page without line 227: the frame found keeps its bit clear
allocate_physical_page_unmarked(st) ==
    Then({p \in st.pa.first_free_page .. (st.pa.total_pages - 1) : p \notin st.pa.bitmap},
         LAMBDA free :
            IF free = {}
            THEN [st |-> st, ret |-> ZERO32, claimed |-> FALSE]
            ELSE [st |-> [st EXCEPT !.pa.used_pages = @ + 1],
                  ret |-> PageMul(MinOf(free)), claimed |-> FALSE])

\* allocate_physical_page: [st, ret, claimed]; claimed says that a bit was set
allocate_physical_page(st) ==
    Then({p \in st.pa.first_free_page .. (st.pa.total_pages - 1) : p \notin st.pa.bitmap},
         LAMBDA free :
            IF free = {}
            THEN [st |-> st, ret |-> ZERO32, claimed |-> FALSE]
            ELSE Then(MinOf(free), LAMBDA page :
                   [st |-> [st EXCEPT
                              !.pa.bitmap = @ \cup {page},
                              !.pa.used_pages = @ + 1,
                              !.pa.first_free_page = IF page = @ THEN @ + 1 ELSE @],
                    ret |-> PageMul(page), claimed |-> TRUE]))

\* free_physical_page without line 265: the bit of the frame stays set
free_physical_page_bit_kept(st, page_addr) ==
    IF page_addr[2] # 0 THEN st
    ELSE IF PageOf(page_addr) >= st.pa.total_pages THEN st
    ELSE IF PageOf(page_addr) \in st.pa.bitmap
    THEN [st EXCEPT !.pa.used_pages = @ - 1,
                    !.pa.first_free_page =
                        IF PageOf(page_addr) < @ THEN PageOf(page_addr) ELSE @]
    ELSE st

\* free_physical_page without lines 272-274: the hint is never lowered
free_physical_page_hint_kept(st, page_addr) ==
    IF page_addr[2] # 0 THEN st
    ELSE IF PageOf(page_addr) >= st.pa.total_pages THEN st
    ELSE IF PageOf(page_addr) \in st.pa.bitmap
    THEN [st EXCEPT !.pa.bitmap = @ \ {PageOf(page_addr)},
                    !.pa.used_pages = @ - 1]
    ELSE st

\* free_physical_page without the test of line 263: the bit is cleared and
\* used_pages decremented whether or not the bit was set
free_physical_page_untested(st, page_addr) ==
    IF page_addr[2] # 0 THEN st
    ELSE IF PageOf(page_addr) >= st.pa.total_pages THEN st
    ELSE [st EXCEPT !.pa.bitmap = @ \ {PageOf(page_addr)},
                    !.pa.used_pages = @ - 1,
                    !.pa.first_free_page =
                        IF PageOf(page_addr) < @ THEN PageOf(page_addr) ELSE @]

\* free_physical_page
free_physical_page(st, page_addr) ==
    IF page_addr[2] # 0 THEN st
    ELSE IF PageOf(page_addr) >= st.pa.total_pages THEN st
    ELSE IF PageOf(page_addr) \in st.pa.bitmap
    THEN [st EXCEPT !.pa.bitmap = @ \ {PageOf(page_addr)},
                    !.pa.used_pages = @ - 1,
                    !.pa.first_free_page =
                        IF PageOf(page_addr) < @ THEN PageOf(page_addr) ELSE @]
    ELSE st

\* get_free_memory's frame count: total_pages - used_pages
FreeFrameCount(pa) == pa.total_pages - pa.used_pages

(* ---------------------------------------------------------------------- *)
(* Kernel state.  Every operation below is a function of a state record    *)
(*   pa      phys_allocator                                                *)
(*   dir     kernel_directory->tables, index -> entry (absent: 0)          *)
(*   tables  kernel_tables, index -> [phys: the table's frame address,     *)
(*           pages: index -> entry (absent: 0)]                            *)
(*   heap    the heap_info_t                                               *)
(*   mem     physical memory, physical address -> byte, for the bytes      *)
(*           that differ from fill, the value RAM holds at power-on        *)
(*   halted  the kernel has stopped (hlt loop, page fault, or a call that  *)
(*           never returns)                                                *)
(* ---------------------------------------------------------------------- *)
Present(entry) == entry[2] % 2 = 1
PdIndex(va) == va[1] \div TABLE_ENTRIES
PtIndex(va) == va[1] % TABLE_ENTRIES
DirEntry(st, pd_index) == Get(st.dir, pd_index, ZERO32)
TableEntry(st, pd_index, pt_index) ==
    IF pd_index \in DOMAIN st.tables
    THEN Get(st.tables[pd_index].pages, pt_index, ZERO32)
    ELSE ZERO32
Halt(st, why) == [st EXCEPT !.halted = why]
Running(st) == st.halted = "no"

\* the processor's page walk: is va mapped, and to which physical address
Mapped(st, va) ==
    /\ Present(DirEntry(st, PdIndex(va)))
    /\ Present(TableEntry(st, PdIndex(va), PtIndex(va)))
PhysOf(st, va) ==
    <<TableEntry(st, PdIndex(va), PtIndex(va))[1], va[2]>>

\* get_physical_address
get_physical_address(st, virtual_addr) ==
    LET pd_index == PdIndex(virtual_addr)
        pt_index == PtIndex(virtual_addr)
        offset == PageOffset(virtual_addr)
    IN  IF ~Present(DirEntry(st, pd_index)) THEN ZERO32
        ELSE IF ~Present(TableEntry(st, pd_index, pt_index)) THEN ZERO32
        ELSE Add32(PageAlign(TableEntry(st, pd_index, pt_index)), offset)

\* is_page_present
is_page_present(st, virtual_addr) == get_physical_address(st, virtual_addr) # ZERO32

\* SetTableEntry that also stores the entry in the slot after pt_index
SetTableEntry_pair(st, pd_index, pt_index, entry) ==
    IF st.paging /\ ~Mapped(st, st.tables[pd_index].phys)
    THEN Halt(st, "page fault")
    ELSE [st EXCEPT !.tables[pd_index].pages =
             Store(Store(@, pt_index, entry, ZERO32),
                   (pt_index + 1) % TABLE_ENTRIES, entry, ZERO32)]

\* table->pages[pt_index] = entry, through the table's pointer: with paging
\* enabled the pointer is a virtual address, and a table frame that is not
\* mapped makes the write fault
SetTableEntry(st, pd_index, pt_index, entry) ==
    IF st.paging /\ ~Mapped(st, st.tables[pd_index].phys)
    THEN Halt(st, "page fault")
    ELSE [st EXCEPT !.tables[pd_index].pages = Store(@, pt_index, entry, ZERO32)]

\* map_page without lines 379-381: the result of allocate_physical_page is
\* used as the new page table even when it is 0
map_page_unchecked(st, virtual_addr, physical_addr, flags) ==
    LET pd_index == PdIndex(PageAlign(virtual_addr))
        pt_index == PtIndex(PageAlign(virtual_addr))
        entry == Or32(PageAlign(physical_addr), flags)
    IN  IF ~Present(DirEntry(st, pd_index))
        THEN Then(allocate_physical_page(st), LAMBDA r :
             Then([r.st EXCEPT !.tables =
                           Put(@, pd_index, [phys |-> r.ret, pages |-> EmptyMap])],
                       LAMBDA s1 :
                  \* the loop that clears the new table writes through its address
                  IF s1.paging /\ ~Mapped(s1, r.ret)
                  THEN Halt(s1, "page fault")
                  ELSE Then([s1 EXCEPT !.dir = Put(@, pd_index,
                                Or32(r.ret, U32(PAGE_PRESENT + PAGE_WRITABLE
                                                + BitAnd(flags[2], PAGE_USER))))],
                            LAMBDA s2 : SetTableEntry(s2, pd_index, pt_index, entry))))
        ELSE SetTableEntry(st, pd_index, pt_index, entry)

\* map_page
map_page(st, virtual_addr, physical_addr, flags) ==
    LET pd_index == PdIndex(PageAlign(virtual_addr))
        pt_index == PtIndex(PageAlign(virtual_addr))
        entry == Or32(PageAlign(physical_addr), flags)
    IN  IF ~Present(DirEntry(st, pd_index))
        THEN Then(allocate_physical_page(st), LAMBDA r :
             IF r.ret = ZERO32 THEN r.st
             ELSE Then([r.st EXCEPT !.tables =
                           Put(@, pd_index, [phys |-> r.ret, pages |-> EmptyMap])],
                       LAMBDA s1 :
                  \* the loop that clears the new table writes through its address
                  IF s1.paging /\ ~Mapped(s1, r.ret)
                  THEN Halt(s1, "page fault")
                  ELSE Then([s1 EXCEPT !.dir = Put(@, pd_index,
                                Or32(r.ret, U32(PAGE_PRESENT + PAGE_WRITABLE
                                                + BitAnd(flags[2], PAGE_USER))))],
                            LAMBDA s2 : SetTableEntry(s2, pd_index, pt_index, entry))))
        ELSE SetTableEntry(st, pd_index, pt_index, entry)

\* unmap_page without line 418: the entry is left as it is
unmap_page_kept(st, virtual_addr) == st

\* unmap_page followed by a reclaim of the page table: the directory entry is
\* cleared and the table's frame is freed
unmap_page_reclaiming(st, virtual_addr) ==
    IF Present(DirEntry(st, PdIndex(virtual_addr)))
    THEN Then(SetTableEntry(st, PdIndex(virtual_addr), PtIndex(virtual_addr), ZERO32),
              LAMBDA s :
                 free_physical_page([s EXCEPT !.dir = Put(@, PdIndex(virtual_addr), ZERO32)],
                                    s.tables[PdIndex(virtual_addr)].phys))
    ELSE st

\* unmap_page
unmap_page(st, virtual_addr) ==
    IF Present(DirEntry(st, PdIndex(virtual_addr)))
    THEN SetTableEntry(st, PdIndex(virtual_addr), PtIndex(virtual_addr), ZERO32)
    ELSE st

\* paging_init, run before translation is on
paging_init(st) ==
    Then(allocate_physical_page(st), LAMBDA r1 :
    IF r1.ret = ZERO32 THEN Halt(r1.st, "no page directory")
    ELSE Then(allocate_physical_page(r1.st), LAMBDA r2 :
         IF r2.ret = ZERO32 THEN Halt(r2.st, "no page table")
         ELSE [r2.st EXCEPT
                 !.directory_phys = r1.ret,
                 !.tables = Put(@, 0,
                     [phys |-> r2.ret,
                      pages |-> [i \in 0 .. TABLE_ENTRIES - 1 |->
                                    Or32(PageMul(i), U32(PAGE_PRESENT + PAGE_WRITABLE))]]),
                 !.dir = Put(@, 0, Or32(r2.ret, U32(PAGE_PRESENT + PAGE_WRITABLE))),
                 !.paging = TRUE]))

(* ---------------------------------------------------------------------- *)
(* Memory accesses of the heap code: through the page tables, byte by byte *)
(* An access to an unmapped address raises a page fault, whose handler     *)
(* halts the kernel; once halted nothing is written any more.              *)
(* ---------------------------------------------------------------------- *)
\* page_fault_handler: reports and halts
page_fault_handler(st) == Halt(st, "page fault")
\* every byte of [va, va + n) is mapped: the first and the last byte are
\* (n <= PAGE_SIZE)
Accessible(st, va, n) ==
    n = 0 \/ (Mapped(st, va) /\ Mapped(st, Add32(va, U32(n - 1))))
\* the access check of a read of n bytes at va
Chk(st, va, n) ==
    IF Running(st) /\ ~Accessible(st, va, n) THEN page_fault_handler(st) ELSE st
Rd8(st, va) == Then(PhysOf(st, va), LAMBDA pa : Get(st.mem, pa, st.fill))
Rd32(st, va) ==
    Then(<<Rd8(st, va), Rd8(st, Add32(va, U32(1))),
           Rd8(st, Add32(va, U32(2))), Rd8(st, Add32(va, U32(3)))>>,
         LAMBDA b : FromBytes32(b))
\* mem holds the bytes that differ from fill
Wr8(st, va, b) ==
    IF ~Running(st) THEN st
    ELSE IF ~Mapped(st, va) THEN page_fault_handler(st)
    ELSE Then(PhysOf(st, va), LAMBDA pa :
            [st EXCEPT !.mem = Store(@, pa, b, st.fill)])
\* a store of a word that faults writes none of its bytes
Wr32(st, va, w) ==
    IF Running(st) /\ ~Accessible(st, va, 4) THEN page_fault_handler(st)
    ELSE
    Then(Bytes32(w), LAMBDA b :
    Then(Wr8(st, va, b[1]), LAMBDA s1 :
    Then(Wr8(s1, Add32(va, U32(1)), b[2]), LAMBDA s2 :
    Then(Wr8(s2, Add32(va, U32(2)), b[3]), LAMBDA s3 :
         Wr8(s3, Add32(va, U32(3)), b[4])))))

(* ---------------------------------------------------------------------- *)
(* Heap allocator                                                          *)
(* ---------------------------------------------------------------------- *)
\* 0xC0400000, 0x100000, 0x1000000, 0xDEADBEEF
HEAP_START_ADDR == Word(787456, 0)
HEAP_INITIAL_SIZE == U32(1048576)
HEAP_MAX_SIZE == U32(16777216)
HEAP_BLOCK_MAGIC == Word(912091, 3823)
NULL == ZERO32
\* bound of the block-list walks of the model
MaxWalk == 12
\* bound of the nesting of kmalloc's retry in the model
MaxKmallocDepth == 3

\* a statement that runs on the state v unless the kernel has halted
Do(v, F(_)) == CHOOSE y \in {IF Running(z) THEN F(z) ELSE z : z \in {v}} : TRUE

\* heap_block_t, packed: the offset and the width of each field
F_magic == [off |-> 0, len |-> 4]
F_size == [off |-> 4, len |-> 4]
F_is_free == [off |-> 8, len |-> 1]
F_next == [off |-> 9, len |-> 4]
F_prev == [off |-> 13, len |-> 4]
FieldAddr(block, F) == Add32(block, U32(F.off))
\* reading the field faults
Faults(st, block, F) == ~Accessible(st, FieldAddr(block, F), F.len)
Magic(st, block) == Rd32(st, FieldAddr(block, F_magic))
Size(st, block) == Rd32(st, FieldAddr(block, F_size))
\* a bool is read as "byte # 0"
IsFree(st, block) == Rd8(st, FieldAddr(block, F_is_free)) # 0
NextOf(st, block) == Rd32(st, FieldAddr(block, F_next))
PrevOf(st, block) == Rd32(st, FieldAddr(block, F_prev))
SetMagic(st, block, w) == Wr32(st, FieldAddr(block, F_magic), w)
SetSize(st, block, w) == Wr32(st, FieldAddr(block, F_size), w)
SetFree(st, block, b) == Wr8(st, FieldAddr(block, F_is_free), IF b THEN 1 ELSE 0)
SetNext(st, block, w) == Wr32(st, FieldAddr(block, F_next), w)
SetPrev(st, block, w) == Wr32(st, FieldAddr(block, F_prev), w)
\* the five stores that set up a header, in the order of the code
NewHeader(st, block, size, next, prev) ==
    Do(SetMagic(st, block, HEAP_BLOCK_MAGIC), LAMBDA s1 :
    Do(SetSize(s1, block, size), LAMBDA s2 :
    Do(SetFree(s2, block, TRUE), LAMBDA s3 :
    Do(SetNext(s3, block, next), LAMBDA s4 :
       SetPrev(s4, block, prev)))))
\* terminal_writestring of a diagnostic
Say(st, text) == IF Running(st) THEN [st EXCEPT !.msg = text] ELSE st

\* heap_init, lines 652-662: one frame of the initial arena
HeapInitStep(acc, i) ==
    Then(allocate_physical_page(acc.st), LAMBDA r :
    IF r.ret = ZERO32
    THEN [st |-> Say(r.st, "ERROR: Cannot allocate initial heap pages!"),
          ok |-> FALSE, stop |-> TRUE]
    ELSE Then(map_page(r.st, Add32(r.st.heap.start_addr, PageMul(i)), r.ret,
                       U32(PAGE_PRESENT + PAGE_WRITABLE)),
              LAMBDA s : [st |-> s, ok |-> TRUE, stop |-> ~Running(s)]))
HeapInitLoop(st) ==
    Iterate(HeapInitStep, [st |-> st, ok |-> TRUE, stop |-> FALSE],
            0, PageOf(HEAP_INITIAL_SIZE))

\* heap_init that sets heap.initialized whether or not the frames of the
\* initial arena were obtained
heap_init_always_ready(st) ==
    Then([st EXCEPT !.heap = [start_addr |-> HEAP_START_ADDR,
                              end_addr |-> HEAP_START_ADDR,
                              size |-> ZERO32,
                              first_block |-> NULL,
                              initialized |-> FALSE]], LAMBDA s0 :
    Then(HeapInitLoop(s0), LAMBDA l :
    IF ~Running(l.st) THEN l.st
    ELSE IF ~l.ok THEN [l.st EXCEPT !.heap.initialized = TRUE]
    ELSE Then([l.st EXCEPT !.heap.end_addr = Add32(@, HEAP_INITIAL_SIZE),
                           !.heap.size = HEAP_INITIAL_SIZE,
                           !.heap.first_block = l.st.heap.start_addr], LAMBDA s1 :
         Do(NewHeader(s1, s1.heap.first_block, HEAP_INITIAL_SIZE, NULL, NULL),
            LAMBDA s2 : [s2 EXCEPT !.heap.initialized = TRUE]))))

heap_init(st) ==
    Then([st EXCEPT !.heap = [start_addr |-> HEAP_START_ADDR,
                              end_addr |-> HEAP_START_ADDR,
                              size |-> ZERO32,
                              first_block |-> NULL,
                              initialized |-> FALSE]], LAMBDA s0 :
    Then(HeapInitLoop(s0), LAMBDA l :
    IF ~l.ok \/ ~Running(l.st) THEN l.st
    ELSE Then([l.st EXCEPT !.heap.end_addr = Add32(@, HEAP_INITIAL_SIZE),
                           !.heap.size = HEAP_INITIAL_SIZE,
                           !.heap.first_block = l.st.heap.start_addr], LAMBDA s1 :
         Do(NewHeader(s1, s1.heap.first_block, HEAP_INITIAL_SIZE, NULL, NULL),
            LAMBDA s2 : [s2 EXCEPT !.heap.initialized = TRUE]))))

\* heap_expand, lines 725-730: the frames acquired so far are given back
ExpandRollbackStep(acc, j) ==
    Then(Add32(acc.st.heap.end_addr, PageMul(j)), LAMBDA virt_addr :
    Then(get_physical_address(acc.st, virt_addr), LAMBDA phys_addr :
    Then(unmap_page(acc.st, virt_addr), LAMBDA u :
         IF ~Running(u) THEN [st |-> u, stop |-> TRUE]
         ELSE [st |-> free_physical_page(u, phys_addr), stop |-> FALSE])))
ExpandRollback(st, i) ==
    Iterate(ExpandRollbackStep, [st |-> st, stop |-> FALSE], 0, i).st

\* heap_expand, lines 721-736: one frame of the growth
ExpandStep(acc, i) ==
    Then(allocate_physical_page(acc.st), LAMBDA r :
    IF r.ret = ZERO32
    THEN [st |-> ExpandRollback(r.st, i), ok |-> FALSE, stop |-> TRUE]
    ELSE Then(map_page(r.st, Add32(r.st.heap.end_addr, PageMul(i)), r.ret,
                       U32(PAGE_PRESENT + PAGE_WRITABLE)),
              LAMBDA s : [st |-> s, ok |-> TRUE, stop |-> ~Running(s)]))
ExpandLoop(st, pages_needed) ==
    Iterate(ExpandStep, [st |-> st, ok |-> TRUE, stop |-> FALSE], 0, pages_needed)

\* heap_expand, lines 739-742: the last block of the list
RECURSIVE LastBlock(_, _, _)
LastBlock(st, block, fuel) ==
    IF block = NULL THEN [st |-> st, block |-> block]
    ELSE IF Faults(st, block, F_next)
    THEN [st |-> page_fault_handler(st), block |-> block]
    ELSE Then(NextOf(st, block), LAMBDA next :
         IF next = NULL THEN [st |-> st, block |-> block]
         ELSE IF fuel = 0 THEN [st |-> Halt(st, "walk bound"), block |-> block]
         ELSE LastBlock(st, next, fuel - 1))

\* heap_expand, lines 744-759: the grown area joins the list
ExpandAttach(st, last_block, increase) ==
    IF last_block # NULL /\ Faults(st, last_block, F_is_free)
    THEN page_fault_handler(st)
    ELSE IF last_block # NULL /\ IsFree(st, last_block)
    THEN IF Faults(st, last_block, F_size) THEN page_fault_handler(st)
         ELSE SetSize(st, last_block, Add32(Size(st, last_block), increase))
    ELSE Do(NewHeader(st, st.heap.end_addr, increase, NULL, last_block), LAMBDA n :
            IF last_block # NULL THEN SetNext(n, last_block, n.heap.end_addr) ELSE n)

\* heap_expand without line 762: heap.size is not brought up to date
heap_expand_size_kept(st, min_increase) ==
    LET pages_needed == PageOf(Add32(min_increase, U32(PAGE_SIZE - 1)))
        increase == PageMul(pages_needed)
    IN  IF ~st.heap.initialized THEN [st |-> st, ok |-> FALSE]
        ELSE IF Gt32(Add32(st.heap.size, increase), HEAP_MAX_SIZE)
        THEN [st |-> st, ok |-> FALSE]
        ELSE Then(ExpandLoop(st, pages_needed), LAMBDA l :
             IF ~l.ok \/ ~Running(l.st) THEN [st |-> l.st, ok |-> FALSE]
             ELSE Then(LastBlock(l.st, l.st.heap.first_block, MaxWalk), LAMBDA w :
                  IF ~Running(w.st) THEN [st |-> w.st, ok |-> FALSE]
                  ELSE Then(ExpandAttach(w.st, w.block, increase), LAMBDA s2 :
                       IF ~Running(s2) THEN [st |-> s2, ok |-> FALSE]
                       ELSE [st |-> [s2 EXCEPT !.heap.end_addr = Add32(@, increase)],
                             ok |-> TRUE])))

\* heap_expand: [st, ok]
heap_expand(st, min_increase) ==
    LET pages_needed == PageOf(Add32(min_increase, U32(PAGE_SIZE - 1)))
        increase == PageMul(pages_needed)
    IN  IF ~st.heap.initialized THEN [st |-> st, ok |-> FALSE]
        ELSE IF Gt32(Add32(st.heap.size, increase), HEAP_MAX_SIZE)
        THEN [st |-> st, ok |-> FALSE]
        ELSE Then(ExpandLoop(st, pages_needed), LAMBDA l :
             IF ~l.ok \/ ~Running(l.st) THEN [st |-> l.st, ok |-> FALSE]
             ELSE Then(LastBlock(l.st, l.st.heap.first_block, MaxWalk), LAMBDA w :
                  IF ~Running(w.st) THEN [st |-> w.st, ok |-> FALSE]
                  ELSE Then(ExpandAttach(w.st, w.block, increase), LAMBDA s2 :
                       IF ~Running(s2) THEN [st |-> s2, ok |-> FALSE]
                       ELSE [st |-> [s2 EXCEPT !.heap.end_addr = Add32(@, increase),
                                               !.heap.size = Add32(@, increase)],
                             ok |-> TRUE])))

\* heap_split_block: the stores in the order of the code, each read seeing
\* the stores before it
heap_split_block(st, block, size) ==
    IF block = NULL THEN st
    ELSE IF Faults(st, block, F_size) THEN page_fault_handler(st)
    ELSE IF Lt32(Size(st, block), Add32(size, U32(HEADER_SIZE + 16))) THEN st
    ELSE
    Then(Add32(block, size), LAMBDA new_block :
    Do(SetMagic(st, new_block, HEAP_BLOCK_MAGIC), LAMBDA a1 :
    Do(SetSize(a1, new_block, Sub32(Size(a1, block), size)), LAMBDA a2 :
    Do(SetFree(a2, new_block, TRUE), LAMBDA a3 :
    IF Faults(a3, block, F_next) THEN page_fault_handler(a3) ELSE
    Do(SetNext(a3, new_block, NextOf(a3, block)), LAMBDA a4 :
    Do(SetPrev(a4, new_block, block), LAMBDA a5 :
    Then(NextOf(a5, block), LAMBDA next :
    Do(IF next # NULL THEN SetPrev(a5, next, new_block) ELSE a5, LAMBDA a6 :
    Do(SetNext(a6, block, new_block), LAMBDA a7 :
       SetSize(a7, block, size))))))))))

\* heap_coalesce, lines 808-817: the forward merges
RECURSIVE CoalesceForward(_, _, _)
CoalesceForward(st, block, fuel) ==
    IF Faults(st, block, F_next) THEN page_fault_handler(st) ELSE
    Then(NextOf(st, block), LAMBDA next :
    IF next = NULL THEN st
    ELSE IF Faults(st, next, F_is_free) THEN page_fault_handler(st)
    ELSE IF ~IsFree(st, next) THEN st
    ELSE IF fuel = 0 THEN Halt(st, "walk bound")
    ELSE IF Faults(st, block, F_size) \/ Faults(st, next, F_size)
         \/ Faults(st, next, F_next)
    THEN page_fault_handler(st)
    ELSE
    Do(SetSize(st, block, Add32(Size(st, block), Size(st, next))), LAMBDA b1 :
    Do(SetNext(b1, block, NextOf(b1, next)), LAMBDA b2 :
    Then(NextOf(b2, next), LAMBDA after :
    Do(IF after # NULL THEN SetPrev(b2, after, block) ELSE b2, LAMBDA b3 :
    Do(SetMagic(b3, next, ZERO32), LAMBDA b4 :
       CoalesceForward(b4, block, fuel - 1)))))))

\* heap_coalesce, lines 819-829: the merge into a free predecessor
CoalesceBackward(st, block) ==
    IF Faults(st, block, F_prev) THEN page_fault_handler(st) ELSE
    Then(PrevOf(st, block), LAMBDA prev :
    IF prev = NULL THEN st
    ELSE IF Faults(st, prev, F_is_free) THEN page_fault_handler(st)
    ELSE IF ~IsFree(st, prev) THEN st
    ELSE IF Faults(st, prev, F_size) \/ Faults(st, block, F_size)
         \/ Faults(st, block, F_next)
    THEN page_fault_handler(st)
    ELSE
    Do(SetSize(st, prev, Add32(Size(st, prev), Size(st, block))), LAMBDA c1 :
    Do(SetNext(c1, prev, NextOf(c1, block)), LAMBDA c2 :
    Then(NextOf(c2, block), LAMBDA next :
    Do(IF next # NULL THEN SetPrev(c2, next, prev) ELSE c2, LAMBDA c3 :
       SetMagic(c3, block, ZERO32))))))

\* heap_coalesce without lines 820-829: no merge into the block before
heap_coalesce_forward_only(st, block) ==
    IF block = NULL THEN st
    ELSE IF Faults(st, block, F_is_free) THEN page_fault_handler(st)
    ELSE IF ~IsFree(st, block) THEN st
    ELSE CoalesceForward(st, block, MaxWalk)

\* heap_coalesce
heap_coalesce(st, block) ==
    IF block = NULL THEN st
    ELSE IF Faults(st, block, F_is_free) THEN page_fault_handler(st)
    ELSE IF ~IsFree(st, block) THEN st
    ELSE Do(CoalesceForward(st, block, MaxWalk), LAMBDA f : CoalesceBackward(f, block))

\* kmalloc, lines 847-865: the first-fit walk from current.
\* [st, ret, found, corrupt]; corrupt is the exit at a wrong sentinel, which
\* returns NULL without growing the heap
Walked(st, ret, found, corrupt) ==
    [st |-> st, ret |-> ret, found |-> found, corrupt |-> corrupt]
\* the walk of kmalloc with the test of line 855 reduced to current->is_free
RECURSIVE KmallocWalk_any_size(_, _, _, _)
KmallocWalk_any_size(st, current, total_size, fuel) ==
    IF current = NULL THEN Walked(st, NULL, FALSE, FALSE)
    ELSE IF Faults(st, current, F_magic)
    THEN Walked(page_fault_handler(st), NULL, FALSE, FALSE)
    ELSE IF Magic(st, current) # HEAP_BLOCK_MAGIC
    THEN Walked(Say(st, "HEAP CORRUPTION DETECTED!"), NULL, FALSE, TRUE)
    ELSE IF Faults(st, current, F_is_free) \/ Faults(st, current, F_size)
    THEN Walked(page_fault_handler(st), NULL, FALSE, FALSE)
    ELSE IF IsFree(st, current)
    THEN Then(heap_split_block(st, current, total_size), LAMBDA s1 :
         Then(SetFree(s1, current, FALSE), LAMBDA s2 :
              Walked(s2, Add32(current, U32(HEADER_SIZE)), TRUE, FALSE)))
    ELSE IF Faults(st, current, F_next)
    THEN Walked(page_fault_handler(st), NULL, FALSE, FALSE)
    ELSE IF fuel = 0 THEN Walked(Halt(st, "walk bound"), NULL, FALSE, FALSE)
    ELSE Then(NextOf(st, current), LAMBDA next :
              KmallocWalk_any_size(st, next, total_size, fuel - 1))

RECURSIVE KmallocWalk(_, _, _, _)
KmallocWalk(st, current, total_size, fuel) ==
    IF current = NULL THEN Walked(st, NULL, FALSE, FALSE)
    ELSE IF Faults(st, current, F_magic)
    THEN Walked(page_fault_handler(st), NULL, FALSE, FALSE)
    ELSE IF Magic(st, current) # HEAP_BLOCK_MAGIC
    THEN Walked(Say(st, "HEAP CORRUPTION DETECTED!"), NULL, FALSE, TRUE)
    ELSE IF Faults(st, current, F_is_free) \/ Faults(st, current, F_size)
    THEN Walked(page_fault_handler(st), NULL, FALSE, FALSE)
    ELSE IF IsFree(st, current) /\ Ge32(Size(st, current), total_size)
    THEN Then(heap_split_block(st, current, total_size), LAMBDA s1 :
         Then(SetFree(s1, current, FALSE), LAMBDA s2 :
              Walked(s2, Add32(current, U32(HEADER_SIZE)), TRUE, FALSE)))
    ELSE IF Faults(st, current, F_next)
    THEN Walked(page_fault_handler(st), NULL, FALSE, FALSE)
    ELSE IF fuel = 0 THEN Walked(Halt(st, "walk bound"), NULL, FALSE, FALSE)
    ELSE Then(NextOf(st, current), LAMBDA next :
              KmallocWalk(st, next, total_size, fuel - 1))

\* kmalloc: [st, ret, walks, grown]: walks counts the block-list walks
\* (calls of kmalloc, the retry included), grown the successful heap_expand
\* calls.  depth is the nesting of the retry; a nesting beyond
\* MaxKmallocDepth stands for a call that never returns.
Malloced(st, ret, walks, grown) ==
    [st |-> st, ret |-> ret, walks |-> walks, grown |-> grown]
RECURSIVE kmalloc_rec(_, _, _)
kmalloc_rec(st, size, depth) ==
    LET size4 == align_up(size, 4)
        total_size == Add32(size4, U32(HEADER_SIZE))
    IN  IF ~st.heap.initialized \/ size = ZERO32 THEN Malloced(st, NULL, 0, 0)
        ELSE IF depth > MaxKmallocDepth
        THEN Malloced(Halt(st, "kmalloc never returns"), NULL, 0, 0)
        ELSE Then(KmallocWalk(st, st.heap.first_block, total_size, MaxWalk), LAMBDA w :
             IF w.found \/ w.corrupt \/ ~Running(w.st) THEN Malloced(w.st, w.ret, 1, 0)
             ELSE Then(heap_expand(w.st, total_size), LAMBDA e :
                  IF ~e.ok \/ ~Running(e.st) THEN Malloced(e.st, NULL, 1, 0)
                  ELSE Then(kmalloc_rec(e.st, size4, depth + 1), LAMBDA again :
                       Malloced(again.st, again.ret, again.walks + 1, again.grown + 1))))
kmalloc(st, size) == kmalloc_rec(st, size, 1)

\* kcalloc: [st, ret].  total_size = count * size in 32 bits; the bytes of the
\* block are set to 0 one by one
kcalloc(st, count, size) ==
    Then(Mul32(count, size), LAMBDA total_size :
    Then(kmalloc(st, total_size), LAMBDA m :
    IF m.ret = NULL \/ ~Running(m.st) THEN [st |-> m.st, ret |-> m.ret]
    ELSE [st |-> Iterate(LAMBDA acc, i :
                           Then(Wr8(acc.st, Add32(m.ret, U32(i)), 0),
                                LAMBDA s : [st |-> s, stop |-> ~Running(s)]),
                         [st |-> m.st, stop |-> FALSE],
                         0, total_size[1] * PAGE_SIZE + total_size[2]).st,
          ret |-> m.ret]))

\* kfree without lines 916-920: a block that is already free is freed again
kfree_unchecked(st, ptr) ==
    IF ptr = NULL \/ ~st.heap.initialized THEN st ELSE
    Then(Sub32(ptr, U32(HEADER_SIZE)), LAMBDA block :
    IF Faults(st, block, F_magic) THEN page_fault_handler(st)
    ELSE IF Magic(st, block) # HEAP_BLOCK_MAGIC
    THEN Say(st, "ERROR: Invalid heap block in kfree!")
    ELSE Do(SetFree(st, block, TRUE), LAMBDA s1 : heap_coalesce(s1, block)))

\* kfree without lines 910-914: the sentinel is not looked at
kfree_unvalidated(st, ptr) ==
    IF ptr = NULL \/ ~st.heap.initialized THEN st ELSE
    Then(Sub32(ptr, U32(HEADER_SIZE)), LAMBDA block :
    IF Faults(st, block, F_is_free) THEN page_fault_handler(st)
    ELSE IF IsFree(st, block)
    THEN Say(st, "WARNING: Double free detected!")
    ELSE Do(SetFree(st, block, TRUE), LAMBDA s1 : heap_coalesce(s1, block)))

\* kfree
kfree(st, ptr) ==
    IF ptr = NULL \/ ~st.heap.initialized THEN st ELSE
    Then(Sub32(ptr, U32(HEADER_SIZE)), LAMBDA block :
    IF Faults(st, block, F_magic) THEN page_fault_handler(st)
    ELSE IF Magic(st, block) # HEAP_BLOCK_MAGIC
    THEN Say(st, "ERROR: Invalid heap block in kfree!")
    ELSE IF Faults(st, block, F_is_free) THEN page_fault_handler(st)
    ELSE IF IsFree(st, block)
    THEN Say(st, "WARNING: Double free detected!")
    ELSE Do(SetFree(st, block, TRUE), LAMBDA s1 : heap_coalesce(s1, block)))

\* heap_get_allocated_size
heap_get_allocated_size(st, ptr) ==
    IF ptr = NULL \/ ~st.heap.initialized THEN ZERO32
    ELSE IF Magic(st, Sub32(ptr, U32(HEADER_SIZE))) # HEAP_BLOCK_MAGIC THEN ZERO32
    ELSE Sub32(Size(st, Sub32(ptr, U32(HEADER_SIZE))), U32(HEADER_SIZE))

\* krealloc, lines 966-970: dst[i] = src[i] for i < n
CopyStep(src, dst, acc, i) ==
    IF ~Mapped(acc.st, Add32(src, U32(i)))
    THEN [st |-> page_fault_handler(acc.st), stop |-> TRUE]
    ELSE Then(Wr8(acc.st, Add32(dst, U32(i)), Rd8(acc.st, Add32(src, U32(i)))),
              LAMBDA s : [st |-> s, stop |-> ~Running(s)])
CopyBytes(st, src, dst, n) ==
    Iterate(LAMBDA acc, i : CopyStep(src, dst, acc, i),
            [st |-> st, stop |-> FALSE], 0, n).st

\* krealloc: [st, ret]
Realloced(st, ret) == [st |-> st, ret |-> ret]
\* krealloc without lines 955-957: the block is never reused, whatever its size
krealloc_always_moves(st, ptr, size) ==
    IF ptr = NULL THEN Then(kmalloc(st, size), LAMBDA m : Realloced(m.st, m.ret))
    ELSE IF size = ZERO32 THEN Realloced(kfree(st, ptr), NULL)
    ELSE
    Then(Sub32(ptr, U32(HEADER_SIZE)), LAMBDA block :
    IF Faults(st, block, F_magic) THEN Realloced(page_fault_handler(st), NULL)
    ELSE IF Magic(st, block) # HEAP_BLOCK_MAGIC THEN Realloced(st, NULL)
    ELSE IF Faults(st, block, F_size) THEN Realloced(page_fault_handler(st), NULL)
    ELSE
    Then(Sub32(Size(st, block), U32(HEADER_SIZE)), LAMBDA current_data_size :
    Then(kmalloc(st, size), LAMBDA m :
    IF m.ret = NULL \/ ~Running(m.st) THEN Realloced(m.st, NULL)
    ELSE
    Then(IF Lt32(current_data_size, size) THEN current_data_size ELSE size, LAMBDA n :
    Then(CopyBytes(m.st, ptr, m.ret, n[1] * PAGE_SIZE + n[2]), LAMBDA copied :
         Realloced(IF Running(copied) THEN kfree(copied, ptr) ELSE copied, m.ret))))))

krealloc(st, ptr, size) ==
    IF ptr = NULL THEN Then(kmalloc(st, size), LAMBDA m : Realloced(m.st, m.ret))
    ELSE IF size = ZERO32 THEN Realloced(kfree(st, ptr), NULL)
    ELSE
    Then(Sub32(ptr, U32(HEADER_SIZE)), LAMBDA block :
    IF Faults(st, block, F_magic) THEN Realloced(page_fault_handler(st), NULL)
    ELSE IF Magic(st, block) # HEAP_BLOCK_MAGIC THEN Realloced(st, NULL)
    ELSE IF Faults(st, block, F_size) THEN Realloced(page_fault_handler(st), NULL)
    ELSE
    Then(Sub32(Size(st, block), U32(HEADER_SIZE)), LAMBDA current_data_size :
    IF Le32(RoundUp4(size), current_data_size) THEN Realloced(st, ptr)
    ELSE
    Then(kmalloc(st, size), LAMBDA m :
    IF m.ret = NULL \/ ~Running(m.st) THEN Realloced(m.st, NULL)
    ELSE
    Then(IF Lt32(current_data_size, size) THEN current_data_size ELSE size, LAMBDA n :
    Then(CopyBytes(m.st, ptr, m.ret, n[1] * PAGE_SIZE + n[2]), LAMBDA copied :
         Realloced(IF Running(copied) THEN kfree(copied, ptr) ELSE copied, m.ret))))))

(* ---------------------------------------------------------------------- *)
(* heap_print_stats: the walk over the block list and its byte counts      *)
(* ---------------------------------------------------------------------- *)
\* current = heap.first_block; while (current) current = current->next.
\* The address, size and free flag of every block visited, as long as the
\* headers can be read
RECURSIVE BlockSummaryFrom(_, _, _, _)
BlockSummaryFrom(st, current, seen, fuel) ==
    IF current = NULL \/ fuel = 0 \/ ~Accessible(st, current, HEADER_SIZE) THEN seen
    ELSE Then([addr |-> current, size |-> Size(st, current),
               is_free |-> IsFree(st, current)], LAMBDA b :
         Then(NextOf(st, current), LAMBDA next :
              BlockSummaryFrom(st, next, Append(seen, b), fuel - 1)))
BlockSummary(st) == BlockSummaryFrom(st, st.heap.first_block, <<>>, MaxWalk + 1)
\* free_bytes += current->size over the free blocks, from block i on
RECURSIVE FreeBytes(_, _)
FreeBytes(summary, i) ==
    IF i > Len(summary) THEN ZERO32
    ELSE Add32(IF summary[i].is_free THEN summary[i].size ELSE ZERO32,
               FreeBytes(summary, i + 1))

(* ---------------------------------------------------------------------- *)
(* heap_validate                                                           *)
(* ---------------------------------------------------------------------- *)
\* one turn of the while loop, lines 1120-1153, on acc.current; blocks counts
\* the turns begun
ValidateStep(acc, i) ==
    Then(acc.current, LAMBDA current :
    Then([acc EXCEPT !.blocks = i + 1], LAMBDA a :
    IF current = NULL
    THEN [a EXCEPT !.st = Say(@, "Heap validation passed"), !.stop = TRUE,
                   !.blocks = i]
    ELSE IF Faults(a.st, current, F_magic)
    THEN [a EXCEPT !.st = page_fault_handler(@), !.stop = TRUE]
    ELSE IF Magic(a.st, current) # HEAP_BLOCK_MAGIC
    THEN [a EXCEPT !.st = Say(@, "HEAP VALIDATION FAILED: Invalid magic number"),
                   !.stop = TRUE]
    ELSE IF Faults(a.st, current, F_size) \/ Faults(a.st, current, F_next)
    THEN [a EXCEPT !.st = page_fault_handler(@), !.stop = TRUE]
    ELSE Then(Size(a.st, current), LAMBDA size :
    IF Lt32(size, U32(HEADER_SIZE)) \/ size[2] % 4 # 0
    THEN [a EXCEPT !.st = Say(@, "HEAP VALIDATION FAILED: Invalid block size"),
                   !.stop = TRUE]
    ELSE IF \/ Lt32(current, a.st.heap.start_addr)
            \/ Gt32(Add32(current, size), a.st.heap.end_addr)
    THEN [a EXCEPT !.st = Say(@, "HEAP VALIDATION FAILED: Block out of bounds"),
                   !.stop = TRUE]
    ELSE IF i + 1 > 10000
    THEN [a EXCEPT !.st = Say(@, "HEAP VALIDATION FAILED: Too many blocks (possible loop)"),
                   !.stop = TRUE]
    ELSE [a EXCEPT !.current = NextOf(a.st, current)])))

\* heap_validate: [st, current, blocks, stop].  st.msg is the verdict printed;
\* the counter of line 1146 ends the loop in its 10001st turn at the latest
heap_validate(st) ==
    IF ~st.heap.initialized
    THEN [st |-> st, current |-> NULL, blocks |-> 0, stop |-> TRUE]
    ELSE Iterate(ValidateStep,
                 [st |-> st, current |-> st.heap.first_block, blocks |-> 0,
                  stop |-> FALSE],
                 0, 10001)

(* ---------------------------------------------------------------------- *)
(* memory_init: the three initialisations in order                         *)
(* ---------------------------------------------------------------------- *)
Boot(fill) ==
    [pa |-> [bitmap |-> {}, total_pages |-> 0, used_pages |-> 0, first_free_page |-> 0],
     dir |-> EmptyMap,
     tables |-> EmptyMap,
     directory_phys |-> NULL,
     paging |-> FALSE,
     heap |-> [start_addr |-> ZERO32, end_addr |-> ZERO32, size |-> ZERO32,
               first_block |-> NULL, initialized |-> FALSE],
     mem |-> EmptyMap,
     fill |-> fill,
     msg |-> "",
     halted |-> "no"]

\* boot = [has_mmap: bit 6 of the multiboot flags, mmap: the memory map]
memory_init(boot, fill) ==
    IF ~boot.has_mmap THEN Halt(Boot(fill), "no memory map")
    ELSE Then(physical_memory_init(boot.mmap), LAMBDA pa :
         Then([Boot(fill) EXCEPT !.pa = pa], LAMBDA s1 :
         Do(paging_init(s1), LAMBDA s2 : heap_init(s2))))

(* ---------------------------------------------------------------------- *)
(* The state machine: the kernel after memory_init, and a client that      *)
(* calls the operations one after the other                                *)
(* ---------------------------------------------------------------------- *)
VARIABLES
    phys_allocator,   \* the physical_allocator_t
    kernel_directory, \* kernel_directory->tables
    kernel_tables,    \* kernel_tables and the page tables they point to
    directory_phys,   \* the frame address of the page directory
    paging,           \* address translation is on
    heap,             \* the heap_info_t
    mem,              \* physical memory
    fill,             \* the byte RAM holds at power-on
    halted,           \* "no", or why the kernel stopped
    frames,           \* addresses allocate_frame handed to the client, still live
    ptrs,             \* addresses kmalloc / krealloc returned, still live
    returned,         \* every address kmalloc / krealloc has returned
    foreign,          \* kfree / krealloc was given an address never returned
    phase,            \* shape of the heap calls so far: "allocs", "frees", "mixed"
    last,             \* the last call: operation, arguments, result
    nops              \* number of calls made

vars == <<phys_allocator, kernel_directory, kernel_tables, directory_phys, paging,
          heap, mem, fill, halted, frames, ptrs, returned, foreign, phase, last, nops>>

\* bound of the number of calls in a behaviour
MaxOps == 4

St ==
    [pa |-> phys_allocator, dir |-> kernel_directory, tables |-> kernel_tables,
     directory_phys |-> directory_phys, paging |-> paging, heap |-> heap,
     mem |-> mem, fill |-> fill, msg |-> "", halted |-> halted]

Commit(s) ==
    /\ phys_allocator' = s.pa
    /\ kernel_directory' = s.dir
    /\ kernel_tables' = s.tables
    /\ directory_phys' = s.directory_phys
    /\ paging' = s.paging
    /\ heap' = s.heap
    /\ mem' = s.mem
    /\ fill' = s.fill
    /\ halted' = s.halted

\* the record of a call.  walks, grown: of kmalloc; claimed: allocate_frame set a
\* bit; live: the address passed was a live allocation; second: the call
\* repeats the kfree of a live address made just before; ready: map found the
\* page table of the address, or a free frame for it; full: free_frame was
\* given a live address right after allocate_frame had returned 0 with no
\* bit clear; refill: allocate_frame was called right after such a free_frame;
\* before: the block list as kmalloc found it
Call(op, arg, arg2, flags, ret, s) ==
    [op |-> op, arg |-> arg, arg2 |-> arg2, flags |-> flags, ret |-> ret,
     msg |-> s.msg, walks |-> 0, grown |-> 0, claimed |-> FALSE, live |-> FALSE,
     second |-> FALSE, ready |-> FALSE, full |-> FALSE, refill |-> FALSE,
     before |-> <<>>]

\* boot memory maps (multiboot records)
\* 0 - 0x9F000 available, 0x9F000 - 0x100000 reserved, 1 MiB - 0x210000 available
MapRoomy ==
    <<Region(U32(0), U32(651264), MULTIBOOT_MEMORY_AVAILABLE),
      Region(U32(651264), U32(397312), MULTIBOOT_MEMORY_RESERVED),
      Region(U32(1048576), U32(1114112), MULTIBOOT_MEMORY_AVAILABLE)>>
\* as MapRoomy with memory up to 0x208000: one frame is left after init
MapTight ==
    <<Region(U32(0), U32(651264), MULTIBOOT_MEMORY_AVAILABLE),
      Region(U32(651264), U32(397312), MULTIBOOT_MEMORY_RESERVED),
      Region(U32(1048576), U32(1081344), MULTIBOOT_MEMORY_AVAILABLE)>>
\* two reserved records that overlap: 0x9F000 - 0x100000 and 0xF0000 - 0x100000
MapOverlap ==
    <<Region(U32(0), U32(651264), MULTIBOOT_MEMORY_AVAILABLE),
      Region(U32(651264), U32(397312), MULTIBOOT_MEMORY_RESERVED),
      Region(U32(983040), U32(65536), MULTIBOOT_MEMORY_RESERVED),
      Region(U32(1048576), U32(1114112), MULTIBOOT_MEMORY_AVAILABLE)>>

InitWith(maps, fills) ==
    \E map \in maps, f \in fills :
        \E s \in {memory_init([has_mmap |-> TRUE, mmap |-> map], f)} :
            /\ phys_allocator = s.pa
            /\ kernel_directory = s.dir
            /\ kernel_tables = s.tables
            /\ directory_phys = s.directory_phys
            /\ paging = s.paging
            /\ heap = s.heap
            /\ mem = s.mem
            /\ fill = s.fill
            /\ halted = s.halted
            /\ frames = <<>>
            /\ ptrs = <<>>
            /\ returned = {}
            /\ foreign = FALSE
            /\ phase = "allocs"
            /\ last = Call("init", ZERO32, ZERO32, ZERO32, ZERO32, s)
            /\ nops = 0

Init == InitWith({MapRoomy, MapTight, MapOverlap}, {0})

Without(seq, a) == SelectSeq(seq, LAMBDA e : e # a)
InSeq(seq, a) == \E i \in 1 .. Len(seq) : seq[i] = a
SeqSet(seq) == {seq[i] : i \in 1 .. Len(seq)}
CanCall == halted = "no" /\ nops < MaxOps

(* ---- frame allocator calls ---- *)
AllocFrame ==
    /\ CanCall
    /\ \E r \in {allocate_physical_page(St)} :
           /\ Commit(r.st)
           /\ frames' = IF r.ret # ZERO32 THEN Append(frames, r.ret) ELSE frames
           /\ last' = [Call("allocate_frame", ZERO32, ZERO32, ZERO32, r.ret, r.st)
                          EXCEPT !.claimed = r.claimed,
                                 !.refill = last.op = "free_frame" /\ last.full]
    /\ nops' = nops + 1
    /\ UNCHANGED <<ptrs, returned, foreign, phase>>

\* addresses a client may pass to free_frame besides the live ones: frame 0,
\* an unaligned address, an address beyond the last frame
FreeFrameArgs == {ZERO32, Word(519, 8), Word(600, 0)}
FreeFrame(a) ==
    /\ CanCall
    /\ \E s \in {free_physical_page(St, a)} :
           /\ Commit(s)
           /\ last' = [Call("free_frame", a, ZERO32, ZERO32, ZERO32, s)
                          EXCEPT !.live = InSeq(frames, a),
                                 !.second = last.op = "free_frame" /\ last.arg = a,
                                 !.full = /\ InSeq(frames, a)
                                          /\ last.op = "allocate_frame"
                                          /\ last.ret = ZERO32
                                          /\ phys_allocator.bitmap =
                                                0 .. phys_allocator.total_pages - 1]
    /\ frames' = Without(frames, a)
    /\ nops' = nops + 1
    /\ UNCHANGED <<ptrs, returned, foreign, phase>>

(* ---- paging calls ---- *)
MapPage(v, p, flags) ==
    /\ CanCall
    /\ \E s0 \in {St} : \E s \in {map_page(s0, v, p, flags)} :
           /\ Commit(s)
           /\ last' = [Call("map_page", v, p, flags, ZERO32, s)
                          EXCEPT !.ready = \/ Present(DirEntry(s0, PdIndex(v)))
                                           \/ allocate_physical_page(s0).ret # ZERO32]
    /\ nops' = nops + 1
    /\ UNCHANGED <<frames, ptrs, returned, foreign, phase>>

UnmapPage(v) ==
    /\ CanCall
    /\ \E s0 \in {St} : \E s \in {unmap_page(s0, v)} :
           /\ Commit(s)
           /\ last' = Call("unmap_page", v, ZERO32, ZERO32, ZERO32, s)
    /\ nops' = nops + 1
    /\ UNCHANGED <<frames, ptrs, returned, foreign, phase>>

(* ---- heap calls ---- *)
Kmalloc(size) ==
    /\ CanCall
    /\ \E s0 \in {St} : \E r \in {kmalloc(s0, size)} :
           /\ Commit(r.st)
           /\ ptrs' = IF r.ret # NULL /\ Running(r.st) THEN Append(ptrs, r.ret) ELSE ptrs
           /\ returned' = IF r.ret # NULL /\ Running(r.st)
                          THEN returned \cup {r.ret} ELSE returned
           /\ phase' = IF phase = "allocs" /\ r.ret # NULL /\ Running(r.st)
                       THEN "allocs" ELSE "mixed"
           /\ last' = [Call("kmalloc", size, ZERO32, ZERO32, r.ret, r.st)
                          EXCEPT !.walks = r.walks, !.grown = r.grown,
                                 !.before = BlockSummary(s0)]
    /\ nops' = nops + 1
    /\ UNCHANGED <<frames, foreign>>

Kcalloc(count, size) ==
    /\ CanCall
    /\ \E s0 \in {St} : \E r \in {kcalloc(s0, count, size)} :
           /\ Commit(r.st)
           /\ ptrs' = IF r.ret # NULL /\ Running(r.st) THEN Append(ptrs, r.ret) ELSE ptrs
           /\ returned' = IF r.ret # NULL /\ Running(r.st)
                          THEN returned \cup {r.ret} ELSE returned
           /\ last' = Call("kcalloc", count, size, ZERO32, r.ret, r.st)
    /\ phase' = "mixed"
    /\ nops' = nops + 1
    /\ UNCHANGED <<frames, foreign>>

Kfree(ptr) ==
    /\ CanCall
    /\ \E s0 \in {St} : \E s \in {kfree(s0, ptr)} :
           /\ Commit(s)
           /\ last' = [Call("kfree", ptr, ZERO32, ZERO32, ZERO32, s)
                          EXCEPT !.live = InSeq(ptrs, ptr),
                                 !.second = /\ last.op = "kfree"
                                            /\ last.arg = ptr
                                            /\ last.live]
    /\ ptrs' = Without(ptrs, ptr)
    /\ foreign' = (foreign \/ ptr \notin returned)
    /\ phase' = IF phase \in {"allocs", "frees"} /\ InSeq(ptrs, ptr)
                THEN "frees" ELSE "mixed"
    /\ nops' = nops + 1
    /\ UNCHANGED <<frames, returned>>

Krealloc(ptr, size) ==
    /\ CanCall
    /\ \E s0 \in {St} : \E r \in {krealloc(s0, ptr, size)} :
           /\ Commit(r.st)
           /\ ptrs' = IF ~Running(r.st) THEN ptrs
                      ELSE IF size = ZERO32 THEN Without(ptrs, ptr)
                      ELSE IF r.ret = NULL \/ r.ret = ptr THEN ptrs
                      ELSE Append(Without(ptrs, ptr), r.ret)
           /\ returned' = IF r.ret # NULL /\ Running(r.st)
                          THEN returned \cup {r.ret} ELSE returned
           /\ last' = [Call("krealloc", ptr, size, ZERO32, r.ret, r.st)
                          EXCEPT !.live = InSeq(ptrs, ptr)]
    /\ foreign' = (foreign \/ (ptr # NULL /\ ptr \notin returned))
    /\ phase' = "mixed"
    /\ nops' = nops + 1
    /\ UNCHANGED <<frames>>

(* ---- the arguments of the calls ---- *)
\* 64; 0xFFFE0 (takes the whole initial arena); 16 MiB; 0xFFF00000;
\* 0xFFFFF000; 0xFFFFFFF0; 0xFFFFFFFF
KmallocSizes ==
    {U32(64), U32(1048544), U32(16777216),
     Word(1048320, 0), Word(1048575, 0), Word(1048575, 4080), Word(1048575, 4095)}
\* addresses that kmalloc never returned: inside the first payload, and in
\* an unmapped page
BogusPtrs == {Add32(HEAP_START_ADDR, U32(32)), Word(1280, 32)}
\* what a client passes to kfree: a live address, the address it has just
\* freed, or an address it made up
KfreeArgs ==
    SeqSet(ptrs) \cup (IF last.op = "kfree" THEN {last.arg} ELSE {}) \cup BogusPtrs
KreallocSizes == {ZERO32, U32(32), U32(200)}
\* virtual pages outside the identity-mapped 4 MiB and outside the heap:
\* 0x500000, 0x800000
MapVirt == {Word(1280, 0), Word(2048, 0)}
\* 0x100000, 0x200000
MapPhys == {Word(256, 0), Word(512, 0)}
\* present|writable, writable, present|writable|user, 0x1003
MapFlags == {U32(3), U32(2), U32(7), Word(1, 3)}

NextHeap ==
    \/ \E size \in KmallocSizes : Kmalloc(size)
    \/ \E ptr \in KfreeArgs : Kfree(ptr)
    \/ \E ptr \in SeqSet(ptrs) \cup {NULL}, size \in KreallocSizes : Krealloc(ptr, size)

NextFrames ==
    \/ AllocFrame
    \/ \E a \in SeqSet(frames) \cup FreeFrameArgs : FreeFrame(a)

NextPaging ==
    \/ \E v \in MapVirt, p \in MapPhys, flags \in MapFlags : MapPage(v, p, flags)
    \/ \E v \in MapVirt : UnmapPage(v)
    \/ AllocFrame

Next == NextHeap \/ NextFrames \/ NextPaging

InitHeap == InitWith({MapRoomy}, {0})
InitPaging == InitWith({MapRoomy, MapTight}, {0})
SpecHeap == InitHeap /\ [][NextHeap]_vars
SpecFrames == Init /\ [][NextFrames]_vars
SpecPaging == InitPaging /\ [][NextPaging]_vars
Spec == Init /\ [][Next]_vars

(* ---------------------------------------------------------------------- *)
(* Observations of the heap                                                *)
(* ---------------------------------------------------------------------- *)
\* the walk of heap_print_stats: current = heap.first_block;
\* while (current) current = current->next.  [blocks: the addresses visited,
\* ended: the walk reached NULL]
RECURSIVE BlockWalk(_, _, _, _)
BlockWalk(st, current, seen, fuel) ==
    IF current = NULL THEN [blocks |-> seen, ended |-> TRUE]
    ELSE IF fuel = 0 \/ ~Accessible(st, current, HEADER_SIZE)
    THEN [blocks |-> seen, ended |-> FALSE]
    ELSE Then(NextOf(st, current), LAMBDA next :
              BlockWalk(st, next, Append(seen, current), fuel - 1))
BlockList(st) == BlockWalk(st, st.heap.first_block, <<>>, MaxWalk + 1)

\* the block list tiles the arena: increasing addresses, no gap and no
\* overlap, prev mirrors next, the last block ends at heap.end_addr
Contiguous(st) ==
    \E w \in {BlockList(st)} :
        /\ w.ended
        /\ Len(w.blocks) >= 1
        /\ PrevOf(st, w.blocks[1]) = NULL
        /\ \A i \in 1 .. Len(w.blocks) - 1 :
              /\ Lt32(w.blocks[i], w.blocks[i + 1])
              /\ Add32(w.blocks[i], Size(st, w.blocks[i])) = w.blocks[i + 1]
              /\ PrevOf(st, w.blocks[i + 1]) = w.blocks[i]
        /\ Add32(w.blocks[Len(w.blocks)], Size(st, w.blocks[Len(w.blocks)]))
              = st.heap.end_addr

(* ---------------------------------------------------------------------- *)
(* Claims                                                                  *)
(* ---------------------------------------------------------------------- *)
\* C1: after heap init and after any sequence of kmalloc / kfree / krealloc
\* calls that pass kfree and krealloc only addresses kmalloc returned, the
\* walk along next visits strictly increasing addresses, each block's
\* address + size is the address of its next block, prev mirrors next, and
\* the last block's address + size is heap.end_addr.
C1_HeapListContiguous ==
    (halted = "no" /\ ~foreign) => \E s \in {St} : Contiguous(s)

\* C2: for every sequence of allocate_frame / free_frame calls after init, no
\* two live allocations (returned by allocate_frame and not yet passed to
\* free_frame) have the same frame address.
C2_FrameUniqueness ==
    \A i, j \in 1 .. Len(frames) : i # j => frames[i] # frames[j]
\* C2 witness: two live frames, the later one a frame that was freed and
\* handed out again (it lies below the one allocated before it)
C2_Witness ==
    /\ Len(frames) >= 2
    /\ last.op = "allocate_frame"
    /\ Lt32(frames[Len(frames)], frames[1])

\* the number of frames whose bit is clear
ClearBits(pa) == Cardinality({p \in 0 .. pa.total_pages - 1 : p \notin pa.bitmap})
\* C3: right after init, for every boot memory map (maps whose non-available
\* regions overlap included), and after every allocate_frame / free_frame
\* call, used_pages plus the number of clear bitmap bits below total_pages
\* equals total_pages, and used_pages never exceeds total_pages.
C3_FrameConservation ==
    /\ phys_allocator.used_pages + ClearBits(phys_allocator) = phys_allocator.total_pages
    /\ phys_allocator.used_pages <= phys_allocator.total_pages

\* translate(v) in the current state
Translate(v) == Then(St, LAMBDA s : get_physical_address(s, v))
C5_KmallocTerminates ==
    last.op = "kmalloc" =>
        /\ halted # "kmalloc never returns"
        /\ last.grown <= 1
        /\ last.walks <= last.grown + 1

\* C6: for every size n > 0 and every reachable heap state, when kmalloc(n)
\* returns a non-NULL address a, heap_get_allocated_size(a) >= n.
C6_AllocatedSizeCoversRequest ==
    (last.op = "kmalloc" /\ last.ret # NULL /\ halted = "no") =>
        \E s \in {St} : Ge32(heap_get_allocated_size(s, last.ret), last.arg)

\* the block list is one free block that spans the arena
OneFreeBlock(st) ==
    /\ st.heap.first_block = st.heap.start_addr
    /\ Accessible(st, st.heap.first_block, HEADER_SIZE)
    /\ Magic(st, st.heap.first_block) = HEAP_BLOCK_MAGIC
    /\ IsFree(st, st.heap.first_block)
    /\ Size(st, st.heap.first_block) = st.heap.size
    /\ NextOf(st, st.heap.first_block) = NULL
    /\ PrevOf(st, st.heap.first_block) = NULL
\* C7: from a freshly initialised heap, after any sequence of successful
\* kmalloc calls followed by kfree of every returned address, in any order,
\* the block list is exactly one free block whose size is the arena size.
C7_FreeAllCoalesces ==
    (phase = "frees" /\ ptrs = <<>> /\ halted = "no") => \E s \in {St} : OneFreeBlock(s)

\* the header before ptr is readable and carries the sentinel
SentinelAt(st, ptr) ==
    /\ ~Faults(st, Sub32(ptr, U32(HEADER_SIZE)), F_magic)
    /\ Magic(st, Sub32(ptr, U32(HEADER_SIZE))) = HEAP_BLOCK_MAGIC
\* the call leaves the heap as it was: the arena bounds and every byte of
\* memory, so every header
HeapUntouched == heap' = heap /\ mem' = mem /\ halted' = halted

\* C8 as stated: for every address a kmalloc returned, kfree(a) followed at
\* once by a second kfree(a) makes the second call report a double free and
\* leave every block's sentinel, size, free flag and links unchanged.
C8_SecondFreeIsDoubleFree ==
    [][(last'.op = "kfree" /\ last'.second) =>
          /\ last'.msg = "WARNING: Double free detected!"
          /\ HeapUntouched]_vars
\* C8 amended: the second kfree(a) leaves every block's sentinel, size, free
\* flag and links unchanged; it reports a double free when a's header still
\* carries the sentinel, and an invalid block when it does not (the first
\* kfree clears the sentinel of a block it merges into a free predecessor).
C8_SecondFreeChangesNothing ==
    [][(last'.op = "kfree" /\ last'.second) =>
          /\ HeapUntouched
          /\ \E s \in {St} :
                last'.msg = IF SentinelAt(s, last'.arg)
                            THEN "WARNING: Double free detected!"
                            ELSE "ERROR: Invalid heap block in kfree!"]_vars
\* C8 witness: a second kfree of a block that the first kfree merged into its
\* free predecessor, in a heap whose list is intact
C8_Witness ==
    /\ last.op = "kfree"
    /\ last.second
    /\ last.msg = "ERROR: Invalid heap block in kfree!"
    /\ halted = "no"
    /\ \E s \in {St} : Contiguous(s)

\* C9: kfree(address) on an address whose preceding header does not carry the
\* sentinel reports an error and changes nothing: the block list, every
\* block's free flag and size, and the arena bounds are as before the call.
C9_InvalidFreeChangesNothing ==
    [][(/\ last'.op = "kfree"
        /\ last'.arg # NULL
        /\ \E s \in {St} :
              /\ ~Faults(s, Sub32(last'.arg, U32(HEADER_SIZE)), F_magic)
              /\ ~SentinelAt(s, last'.arg)) =>
          /\ last'.msg = "ERROR: Invalid heap block in kfree!"
          /\ HeapUntouched
          /\ phys_allocator' = phys_allocator
          /\ kernel_tables' = kernel_tables]_vars
\* C9 witness: kfree of an address inside a payload, which kmalloc never
\* returned, has reported the invalid block
C9_Witness ==
    /\ last.op = "kfree"
    /\ last.arg = Add32(HEAP_START_ADDR, U32(32))
    /\ ~last.live
    /\ last.msg = "ERROR: Invalid heap block in kfree!"
    /\ halted = "no"

\* the frames that RoundUp4(size) + HEADER_SIZE needs, computed without
\* wrapping, and that total as an unwrapped <<pages, offset>>
RequiredTotal(size) ==
    LET off == ((size[2] + 3) \div 4) * 4 + HEADER_SIZE
    IN  <<size[1] + off \div PAGE_SIZE, off % PAGE_SIZE>>
RequiredPages(size) ==
    RequiredTotal(size)[1] + (IF RequiredTotal(size)[2] > 0 THEN 1 ELSE 0)
\* no free block of the list holds RequiredTotal(size)
NoBlockFits(st, size) ==
    \E w \in {BlockList(st)} :
        \A i \in 1 .. Len(w.blocks) :
            ~(IsFree(st, w.blocks[i]) /\ Ge32(Size(st, w.blocks[i]), RequiredTotal(size)))
\* C10: when no free block fits and growing by the frame-rounded required
\* total would take the arena beyond HEAP_MAX_SIZE, kmalloc returns NULL and
\* the block list, the arena end and size, the page mappings and the frame
\* bitmap are exactly as before the call.
C10_GrowthBeyondMaxFailsCleanly ==
    [][(/\ last'.op = "kmalloc"
        /\ last'.arg # ZERO32
        /\ \E s \in {St} :
              /\ NoBlockFits(s, last'.arg)
              /\ PageOf(s.heap.size) + RequiredPages(last'.arg) > PageOf(HEAP_MAX_SIZE)) =>
          /\ last'.ret = NULL
          /\ HeapUntouched
          /\ kernel_tables' = kernel_tables
          /\ kernel_directory' = kernel_directory
          /\ phys_allocator'.bitmap = phys_allocator.bitmap]_vars

(* ---------------------------------------------------------------------- *)
(* A machine with 0x508000 bytes of memory: after memory_init 769 frames   *)
(* are free, enough for the arena to grow to the end of the 4 MiB region   *)
(* of its page table (0xC0800000) and one frame more                       *)
(* ---------------------------------------------------------------------- *)
\* 0 - 0x9F000 available, 0x9F000 - 0x100000 reserved, 1 MiB - 0x508000 available
MapBig ==
    <<Region(U32(0), U32(651264), MULTIBOOT_MEMORY_AVAILABLE),
      Region(U32(651264), U32(397312), MULTIBOOT_MEMORY_RESERVED),
      Region(U32(1048576), U32(4227072), MULTIBOOT_MEMORY_AVAILABLE)>>
\* 64 and 2 MiB
GrowthSizes == {U32(64), U32(2097152)}
InitGrowth == InitWith({MapBig}, {0})
\* the client frees only what it was given
NextGrowth ==
    \/ \E size \in GrowthSizes : Kmalloc(size)
    \/ \E ptr \in SeqSet(ptrs) : Kfree(ptr)
    \/ AllocFrame
    \/ \E a \in SeqSet(frames) : FreeFrame(a)
SpecGrowth == InitGrowth /\ [][NextGrowth]_vars

\* C11: heap growth is all-or-nothing: when a frame allocation fails part-way
\* through a growth attempt (no block fits, the growth stays within
\* HEAP_MAX_SIZE, and fewer frames are free than the growth needs), kmalloc
\* returns NULL and the set of allocated frames, the used-frame count, the
\* page mappings, the arena end and size and the block list are exactly as
\* before the attempt.
C11_GrowthAllOrNothing ==
    [][(/\ last'.op = "kmalloc"
        /\ last'.arg # ZERO32
        /\ heap.initialized
        /\ \E s \in {St} :
              /\ NoBlockFits(s, last'.arg)
              /\ PageOf(s.heap.size) + RequiredPages(last'.arg) <= PageOf(HEAP_MAX_SIZE)
              /\ RequiredPages(last'.arg) > ClearBits(s.pa)) =>
          /\ last'.ret = NULL
          /\ phys_allocator'.bitmap = phys_allocator.bitmap
          /\ phys_allocator'.used_pages = phys_allocator.used_pages
          /\ kernel_tables' = kernel_tables
          /\ kernel_directory' = kernel_directory
          /\ HeapUntouched]_vars

\* C12: after any sequence of frame and heap operations allocate_frame
\* returns NONE (address 0) if and only if no frame bit is clear, and
\* whenever it claims a frame (sets a bit and increments used_pages) the
\* address it returns is not 0.
C12_NoneIffExhausted ==
    [][last'.op = "allocate_frame" =>
          /\ (last'.ret = ZERO32) <=> (ClearBits(phys_allocator) = 0)
          /\ last'.claimed => last'.ret # ZERO32]_vars

\* the frame after the last one of the kernel image and the bitmap (line 185)
KernelEndPage(total_pages) ==
    PageOf(Add32(Add32(align_up(U32(KERNEL_END), 4), U32(((total_pages + 31) \div 32) * 4)),
                 U32(PAGE_SIZE - 1)))
\* the frames that hold a byte of record r
FramesTouched(r) ==
    IF r.length = ZERO32 THEN {}
    ELSE PageOf(r.base) .. (PageOf(r.base) + PageOf(Add32(PageOffset(r.base), r.length))
                            - (IF Add32(PageOffset(r.base), r.length)[2] = 0 THEN 1 ELSE 0))
\* the frames of the non-available records of a memory map
NonAvailableFrames(mmap) ==
    UNION {FramesTouched(mmap[i]) :
             i \in {k \in 1 .. Len(mmap) : mmap[k].type # MULTIBOOT_MEMORY_AVAILABLE}}
\* the frames that are never to be handed out: those below 1 MiB, those of the
\* non-available records, those of the kernel image and of the bitmap
ReservedFrames(mmap, total_pages) ==
    {p \in (0 .. 255) \cup NonAvailableFrames(mmap)
           \cup (256 .. KernelEndPage(total_pages) - 1) : p < total_pages}

\* C13: in every state reachable after init through frame and heap
\* operations, every frame below 1 MiB, every frame of a non-available
\* memory-map region and every frame of the kernel image or the bitmap has
\* its bit set: no free_frame call, by a client or by the rollback of a heap
\* growth, clears such a bit.
C13_ReservedFramesStaySet ==
    ReservedFrames(MapBig, phys_allocator.total_pages) \subseteq phys_allocator.bitmap

(* ---------------------------------------------------------------------- *)
(* Booting: memory_init on the boot information of several machines.  The  *)
(* record of the call keeps the boot information it was given.             *)
(* ---------------------------------------------------------------------- *)
\* a machine with n frames of memory: 0 - 0x9F000 available, 0x9F000 - 1 MiB
\* reserved, 1 MiB - n * 4096 available
MapOfFrames(n) ==
    <<Region(U32(0), U32(651264), MULTIBOOT_MEMORY_AVAILABLE),
      Region(U32(651264), U32(397312), MULTIBOOT_MEMORY_RESERVED),
      Region(U32(1048576), U32((n - 256) * PAGE_SIZE), MULTIBOOT_MEMORY_AVAILABLE)>>
\* as MapRoomy, with a reserved record 0x20A800 - 0x20B800 whose base is not
\* frame-aligned
MapUnaligned ==
    <<Region(U32(0), U32(651264), MULTIBOOT_MEMORY_AVAILABLE),
      Region(U32(651264), U32(397312), MULTIBOOT_MEMORY_RESERVED),
      Region(U32(1048576), U32(1091584), MULTIBOOT_MEMORY_AVAILABLE),
      Region(U32(2140160), U32(4096), MULTIBOOT_MEMORY_RESERVED),
      Region(U32(2144256), U32(18432), MULTIBOOT_MEMORY_AVAILABLE)>>
\* the boot information: no memory map; memory that ends with the kernel and
\* the bitmap (260 frames), one frame later, in the middle of the initial
\* arena (400 frames); and machines on which memory_init completes
Boots ==
    {[has_mmap |-> FALSE, mmap |-> <<>>]}
    \cup {[has_mmap |-> TRUE, mmap |-> m] :
            m \in {MapOfFrames(260), MapOfFrames(261), MapOfFrames(400),
                   MapRoomy, MapTight, MapUnaligned}}
InitBoot ==
    \E boot \in Boots :
        \E s \in {memory_init(boot, 0)} :
            /\ phys_allocator = s.pa
            /\ kernel_directory = s.dir
            /\ kernel_tables = s.tables
            /\ directory_phys = s.directory_phys
            /\ paging = s.paging
            /\ heap = s.heap
            /\ mem = s.mem
            /\ fill = s.fill
            /\ halted = s.halted
            /\ frames = <<>>
            /\ ptrs = <<>>
            /\ returned = {}
            /\ foreign = FALSE
            /\ phase = "allocs"
            /\ last = [f \in DOMAIN Call("init", ZERO32, ZERO32, ZERO32, ZERO32, s)
                             \cup {"boot"} |->
                         IF f = "boot" THEN boot
                         ELSE Call("init", ZERO32, ZERO32, ZERO32, ZERO32, s)[f]]
            /\ nops = 0
SpecBoot == InitBoot /\ [][NextFrames]_vars

\* the frames that lie wholly inside one available record of a memory map
AvailableFrames(mmap, total_pages) ==
    {p \in 0 .. total_pages - 1 :
        \E i \in 1 .. Len(mmap) :
            /\ mmap[i].type = MULTIBOOT_MEMORY_AVAILABLE
            /\ Le32(mmap[i].base, PageMul(p))
            /\ (p + 1) * PAGE_SIZE <= mmap[i].base[1] * PAGE_SIZE + mmap[i].base[2]
                                      + mmap[i].length[1] * PAGE_SIZE + mmap[i].length[2]}
\* C14: right after init, for every boot memory map, every frame whose bit
\* is clear lies at or above 1 MiB, outside the kernel image and the bitmap,
\* and wholly inside available regions: it holds no byte of a non-available
\* region, regions whose base is not frame-aligned included.
C14_FreeFramesAreAvailable ==
    (last.op = "init" /\ halted = "no") =>
        \A p \in (0 .. phys_allocator.total_pages - 1) \ phys_allocator.bitmap :
            /\ p \notin ReservedFrames(last.boot.mmap, phys_allocator.total_pages)
            /\ p \in AvailableFrames(last.boot.mmap, phys_allocator.total_pages)

\* C15: from a state in which allocate_frame has just returned NONE with
\* every frame in use, for every live address a that allocate_frame
\* returned, free_frame(a) followed by allocate_frame() returns an address
\* that is not NONE, and that address is a.
C15_RefillAfterExhaustion ==
    [][(last.op = "free_frame" /\ last.full /\ last'.op = "allocate_frame") =>
          /\ last'.ret # ZERO32
          /\ last'.ret = last.arg]_vars
\* C15 witness: allocate_frame has run right after the free_frame of a live
\* frame that followed an allocate_frame answering NONE, and has returned a
\* frame
C15_Witness ==
    /\ last.op = "allocate_frame"
    /\ last.refill
    /\ last.ret # ZERO32
    /\ InSeq(frames, last.ret)

\* C16: for every reachable heap state and every N for which kmalloc(N)
\* returns an address a, kmalloc(N) followed at once by kfree(a) leaves the
\* heap with the same total of free bytes as before the kmalloc and, when
\* the heap did not grow, with the same block list.
C16_AllocFreeRoundTrip ==
    [][(/\ last.op = "kmalloc"
        /\ last.ret # NULL
        /\ halted = "no"
        /\ last'.op = "kfree"
        /\ last'.arg = last.ret) =>
          \E after \in {BlockSummary(St')} :
              /\ FreeBytes(after, 1) = FreeBytes(last.before, 1)
              /\ last.grown = 0 => after = last.before]_vars

(* ---------------------------------------------------------------------- *)
(* The identity map of the first 4 MiB                                     *)
(* ---------------------------------------------------------------------- *)
\* offsets inside a page at which an address is looked up: first byte, second
\* byte, last byte
IdentityOffsets == {0, 1, PAGE_SIZE - 1}
\* the virtual addresses below 4 MiB that are looked up
IdentityAddrs == {Word(page, off) : page \in 0 .. TABLE_ENTRIES - 1, off \in IdentityOffsets}

\* C17: once paging is on, every virtual address v below 4 MiB translates to
\* itself (get_physical_address(v) = v), its page is present and writable in the
\* page tables, and is_page_present(v) is true
C17_IdentityMapped ==
    (paging /\ halted = "no") =>
        \A v \in IdentityAddrs : \E s \in {St} :
            /\ Mapped(s, v)
            /\ PhysOf(s, v) = v
            /\ TableEntry(s, PdIndex(v), PtIndex(v))[2] % 4 = 3
            /\ get_physical_address(s, v) = v
            /\ is_page_present(s, v)

(* ---------------------------------------------------------------------- *)
(* krealloc                                                                *)
(* ---------------------------------------------------------------------- *)
\* C18: krealloc(ptr, size) with a live ptr, size > 0, and a block whose
\* payload capacity is at least size rounded up to 4 returns ptr and changes
\* nothing: heap descriptor, every block header and payload byte, frame
\* bitmap and page tables are the same after the call
C18_FitsReturnsSame ==
    [][(/\ last'.op = "krealloc" /\ last'.live /\ last'.arg2 # ZERO32
        /\ Le32(last'.arg2, RoundUp4(last'.arg2))
        /\ Le32(RoundUp4(last'.arg2), heap_get_allocated_size(St, last'.arg)))
       => /\ last'.ret = last'.arg
          /\ HeapUntouched
          /\ phys_allocator' = phys_allocator
          /\ kernel_tables' = kernel_tables
          /\ kernel_directory' = kernel_directory
          /\ ptrs' = ptrs]_vars
\* C18: a krealloc that found the block large enough has been made
C18_Witness ==
    /\ last.op = "krealloc" /\ last.live /\ last.arg2 # ZERO32
    /\ last.ret = last.arg
    /\ InSeq(ptrs, last.ret)
    /\ Le32(RoundUp4(last.arg2), heap_get_allocated_size(St, last.arg))
\* C18 as stated, size 0 included: krealloc(ptr, size) with a live ptr and a
\* payload capacity of at least size rounded up to 4 returns ptr and changes
\* nothing
C18_FitsReturnsSameAnySize ==
    [][(/\ last'.op = "krealloc" /\ last'.live
        /\ Le32(last'.arg2, RoundUp4(last'.arg2))
        /\ Le32(RoundUp4(last'.arg2), heap_get_allocated_size(St, last'.arg)))
       => /\ last'.ret = last'.arg
          /\ HeapUntouched]_vars

\* sizes passed to krealloc for a block of 64 payload bytes: 32, 200, 0xFFFFFFF0
ReallocSizes == {U32(32), U32(200), Word(1048575, 4080)}
NextRealloc ==
    \/ Kmalloc(U32(64))
    \/ \E ptr \in SeqSet(ptrs) : Kfree(ptr)
    \/ \E ptr \in SeqSet(ptrs), size \in ReallocSizes : Krealloc(ptr, size)
SpecRealloc == InitHeap /\ [][NextRealloc]_vars

\* C19: krealloc(ptr, size) with a live ptr whose payload capacity is smaller
\* than size, when it returns an address, returns a live address other than
\* ptr whose block has a payload capacity of at least size and whose first
\* min(old capacity, size) bytes are those of the old payload, and afterwards
\* the old block lies inside a free block of the block list
C19_GrowMovesBlock ==
    [][(/\ last'.op = "krealloc" /\ last'.live /\ last'.arg2 # ZERO32
        /\ Lt32(heap_get_allocated_size(St, last'.arg), last'.arg2)
        /\ last'.ret # NULL /\ halted' = "no")
       => \E s \in {St}, t \in {St'} :
          \E cap \in {heap_get_allocated_size(s, last'.arg)} :
          \E n \in {IF Lt32(cap, last'.arg2) THEN cap ELSE last'.arg2} :
          \E old \in {Sub32(last'.arg, U32(HEADER_SIZE))} :
            /\ last'.ret # last'.arg
            /\ InSeq(ptrs', last'.ret) /\ ~InSeq(ptrs', last'.arg)
            /\ Le32(last'.arg2, heap_get_allocated_size(t, last'.ret))
            /\ \A i \in 0 .. n[1] * PAGE_SIZE + n[2] - 1 :
                   Rd8(t, Add32(last'.ret, U32(i))) = Rd8(s, Add32(last'.arg, U32(i)))
            /\ \E k \in DOMAIN BlockSummary(t) : \E b \in {BlockSummary(t)[k]} :
                   /\ b.is_free
                   /\ Le32(b.addr, old)
                   /\ Lt32(Sub32(old, b.addr), b.size)]_vars

(* ---------------------------------------------------------------------- *)
(* Fatal conditions of memory_init                                         *)
(* ---------------------------------------------------------------------- *)
\* C20: when memory_init met a fatal condition (no memory map, no frame for
\* the page directory or the first page table, no frame for a page of the
\* initial heap) the kernel is halted and no operation has run: a kernel that
\* is not halted has paging on and an initialised heap
C20_FatalBootHalts ==
    (~paging \/ ~heap.initialized) => (halted # "no" /\ nops = 0)

(* ---------------------------------------------------------------------- *)
(* The heap calls on a machine whose heap could not be initialised, and    *)
(* kcalloc                                                                 *)
(* ---------------------------------------------------------------------- *)
\* count and size of kcalloc: 4 * 16; 0 * 8; 0x80000001 * 2
CallocArgs == {<<U32(4), U32(16)>>, <<ZERO32, U32(8)>>, <<Word(524288, 1), U32(2)>>}
NextCalloc ==
    \/ \E size \in {U32(64), Word(1048575, 4080)} : Kmalloc(size)
    \/ \E a \in CallocArgs : Kcalloc(a[1], a[2])
    \/ \E ptr \in KfreeArgs \cup {NULL} : Kfree(ptr)
    \/ NextFrames
SpecCalloc == InitWith({MapRoomy, MapOfFrames(400)}, {0, 255}) /\ [][NextCalloc]_vars

\* C21: when heap_init could not obtain a frame of the initial arena (the arena
\* has size 0) the heap is uninitialised and stays so; from then on kmalloc and kcalloc return
\* NULL, heap_get_allocated_size returns 0 for every address, and kfree
\* changes nothing
C21_UninitialisedHeapRefuses ==
    [][(heap.size = ZERO32 /\ halted = "no")
       => /\ ~heap.initialized /\ ~heap'.initialized
          /\ last'.op \in {"kmalloc", "kcalloc"} => last'.ret = NULL
          /\ last'.op = "kfree"
                => /\ HeapUntouched
                   /\ phys_allocator' = phys_allocator
                   /\ kernel_tables' = kernel_tables
                   /\ kernel_directory' = kernel_directory
          /\ \A p \in KfreeArgs \cup {NULL, Add32(HEAP_START_ADDR, U32(HEADER_SIZE))} :
                heap_get_allocated_size(St', p) = ZERO32]_vars
\* C21: heap_init has failed and at least three calls have been made since,
\* the last of them a kfree of an address other than NULL
C21_Witness ==
    /\ heap.size = ZERO32 /\ ~heap.initialized /\ halted = "no"
    /\ last.op = "kfree" /\ last.arg # NULL
    /\ nops >= 3

(* ---------------------------------------------------------------------- *)
(* map_page under memory pressure                                          *)
(* ---------------------------------------------------------------------- *)
\* C22: map_page(v, p, flags) called when the directory entry of v is absent
\* and no bit of the bitmap is clear returns with the page directory, every
\* page table and the frame allocator unchanged, and get_physical_address(v)
\* is 0 afterwards
C22_MapWithoutFrameChangesNothing ==
    [][(/\ last'.op = "map_page"
        /\ ~Present(DirEntry(St, PdIndex(last'.arg)))
        /\ ClearBits(phys_allocator) = 0)
       => /\ kernel_directory' = kernel_directory
          /\ kernel_tables' = kernel_tables
          /\ phys_allocator' = phys_allocator
          /\ halted' = halted
          /\ get_physical_address(St', last'.arg) = ZERO32]_vars
\* C22: a map_page has been made with no page table for the address and no
\* bit clear
C22_Witness ==
    /\ last.op = "map_page" /\ ~last.ready /\ halted = "no"
    /\ ~Present(DirEntry(St, PdIndex(last.arg)))
    /\ ClearBits(phys_allocator) = 0

(* ---------------------------------------------------------------------- *)
(* Preemption.  Nothing in memory.c masks interrupts or takes a lock.  An  *)
(* interrupt handler runs to completion between two instructions of the    *)
(* call it preempts; the handler here makes an allocation of its own.      *)
(* ---------------------------------------------------------------------- *)
\* allocate_physical_page with interrupts masked from the scan to the return:
\* the handler's call runs after the preempted call has set its bit
AllocFrameMasked ==
    /\ CanCall
    /\ \E s0 \in {St} : \E r \in {allocate_physical_page(s0)} :
           /\ r.claimed
           /\ \E h \in {allocate_physical_page(r.st)} :
                  /\ Commit(h.st)
                  /\ frames' = (IF h.ret # ZERO32 THEN Append(frames, h.ret) ELSE frames)
                               \o (IF r.ret # ZERO32 THEN <<r.ret>> ELSE <<>>)
                  /\ last' = Call("allocate_frame_preempted", h.ret, ZERO32, ZERO32,
                                  r.ret, h.st)
    /\ nops' = nops + 1
    /\ UNCHANGED <<ptrs, returned, foreign, phase>>

\* allocate_physical_page, preempted between the test of line 226 (the bit of
\* page is clear) and line 228 (the bit is set) by a handler that calls
\* allocate_physical_page.  The preempted call goes on with its own page;
\* line 231 reads first_free_page as the handler left it
AllocFramePreempted ==
    /\ CanCall
    /\ \E s0 \in {St} :
       \E free \in {{p \in s0.pa.first_free_page .. (s0.pa.total_pages - 1) :
                        p \notin s0.pa.bitmap}} :
           /\ free # {}
           /\ \E page \in {MinOf(free)} : \E h \in {allocate_physical_page(s0)} :
              \E s \in {[h.st EXCEPT
                           !.pa.bitmap = @ \cup {page},
                           !.pa.used_pages = @ + 1,
                           !.pa.first_free_page = IF page = @ THEN @ + 1 ELSE @]} :
                  /\ Commit(s)
                  /\ frames' = (IF h.ret # ZERO32 THEN Append(frames, h.ret) ELSE frames)
                               \o (IF page # 0 THEN <<PageMul(page)>> ELSE <<>>)
                  /\ last' = Call("allocate_frame_preempted", h.ret, ZERO32, ZERO32,
                                  PageMul(page), s)
    /\ nops' = nops + 1
    /\ UNCHANGED <<ptrs, returned, foreign, phase>>

\* kmalloc(size), preempted between the test of line 855 (current is free and
\* large enough) and line 857 by a handler that calls kmalloc(isize).  The
\* preempted call goes on with its own current: heap_split_block, is_free =
\* false, return
KmallocPreempted(size, isize) ==
    /\ CanCall
    /\ heap.initialized
    /\ \E s0 \in {St} : \E total_size \in {Add32(align_up(size, 4), U32(HEADER_SIZE))} :
       \E list \in {BlockSummary(s0)} :
       \E fits \in {SelectSeq(list, LAMBDA b : b.is_free /\ Ge32(b.size, total_size))} :
           /\ \A k \in DOMAIN list : Magic(s0, list[k].addr) = HEAP_BLOCK_MAGIC
           /\ Len(fits) > 0
           /\ \E current \in {fits[1].addr} : \E h \in {kmalloc(s0, isize)} :
              \E s1 \in {heap_split_block(h.st, current, total_size)} :
              \E s \in {SetFree(s1, current, FALSE)} :
              \E ret \in {Add32(current, U32(HEADER_SIZE))} :
                  /\ Commit(s)
                  /\ ptrs' = (IF h.ret # NULL THEN Append(ptrs, h.ret) ELSE ptrs)
                             \o (IF Running(s) THEN <<ret>> ELSE <<>>)
                  /\ returned' = returned \cup ({h.ret} \ {NULL})
                                          \cup (IF Running(s) THEN {ret} ELSE {})
                  /\ last' = Call("kmalloc_preempted", h.ret, size, isize, ret, s)
    /\ phase' = "mixed"
    /\ nops' = nops + 1
    /\ UNCHANGED <<frames, foreign>>

NextPreempt ==
    \/ NextFrames
    \/ AllocFramePreempted
    \/ \E size \in {U32(64), U32(128)} : Kmalloc(size)
    \/ \E ptr \in SeqSet(ptrs) : Kfree(ptr)
    \/ \E size, isize \in {U32(64), U32(128)} : KmallocPreempted(size, isize)
SpecPreempt == InitPaging /\ [][NextPreempt]_vars

\* C23: when a handler that allocates a frame (a block of the same size) runs
\* between a preempted call's test of a clear bit (of a free block that fits)
\* and the marking of it, the handler and the preempted call return the same
\* frame (the same payload address), which is then held twice
C23_PreemptionBreaksExclusivity ==
    [][/\ last'.op = "allocate_frame_preempted"
            => /\ last'.ret = last'.arg
               /\ last'.ret # ZERO32
                    => Cardinality({i \in DOMAIN frames' : frames'[i] = last'.ret}) >= 2
       /\ (last'.op = "kmalloc_preempted" /\ last'.flags = last'.arg2 /\ halted' = "no")
            => /\ last'.ret = last'.arg
               /\ Cardinality({i \in DOMAIN ptrs' : ptrs'[i] = last'.ret}) >= 2]_vars
\* C23: a preempted kmalloc has returned the address its handler was given,
\* and a frame is held twice as well
C23_Witness ==
    /\ last.op = "kmalloc_preempted" /\ last.flags = last.arg2 /\ halted = "no"
    /\ last.ret = last.arg /\ last.ret # NULL
    /\ \E i, j \in DOMAIN frames : i # j /\ frames[i] = frames[j]

(* ---------------------------------------------------------------------- *)
(* The bounds of the arena                                                 *)
(* ---------------------------------------------------------------------- *)
\* C24: once the heap is initialised, before and after every call start_addr
\* is HEAP_START_ADDR, size is end_addr - start_addr and at most
\* HEAP_MAX_SIZE, and no call lowers end_addr
C24_ArenaBounds ==
    [][heap.initialized
       => /\ heap'.initialized
          /\ heap.start_addr = HEAP_START_ADDR /\ heap'.start_addr = HEAP_START_ADDR
          /\ heap.size = Sub32(heap.end_addr, heap.start_addr)
          /\ heap'.size = Sub32(heap'.end_addr, heap'.start_addr)
          /\ Le32(heap.size, HEAP_MAX_SIZE) /\ Le32(heap'.size, HEAP_MAX_SIZE)
          /\ Le32(heap.end_addr, heap'.end_addr)
          /\ Le32(heap.start_addr, heap'.end_addr)]_vars
\* C24: a kmalloc has grown the arena beyond its initial size
C24_Witness ==
    /\ last.op = "kmalloc" /\ last.grown >= 1 /\ last.ret # NULL
    /\ Gt32(heap.size, HEAP_INITIAL_SIZE)
    /\ heap.size = Sub32(heap.end_addr, heap.start_addr)

(* ---------------------------------------------------------------------- *)
(* heap_validate on block lists whose first header has been overwritten    *)
(* ---------------------------------------------------------------------- *)
\* C25: heap_validate ends on every block list, the ones with an overwritten
\* header included (next pointing back to the block, size 0xFFFFFFF0, size 16,
\* sentinel 0): it ends without a fault in at most 10001 turns of its loop,
\* and when the first block has a wrong sentinel, a size below the header
\* size or not a multiple of 4, or an extent that is not inside [start_addr,
\* end_addr), it ends at that block with a failure verdict
C25_ValidateStopsAtFirstBadBlock ==
    heap.initialized =>
        \E s0 \in {St} : \E b \in {heap.first_block} :
        \A s \in {s0, SetNext(s0, b, b), SetSize(s0, b, Word(1048575, 4080)),
                  SetSize(s0, b, U32(16)), SetMagic(s0, b, ZERO32)} :
        \E v \in {heap_validate(s)} :
            /\ v.stop /\ v.blocks <= 10001 /\ v.st.halted = s.halted
            /\ (\/ Magic(s, b) # HEAP_BLOCK_MAGIC
                \/ Lt32(Size(s, b), U32(HEADER_SIZE))
                \/ Size(s, b)[2] % 4 # 0
                \/ Lt32(b, s.heap.start_addr)
                \/ Gt32(b, s.heap.end_addr)
                \/ Gt32(Size(s, b), Sub32(s.heap.end_addr, b)))
               => (v.blocks = 1 /\ v.st.msg # "Heap validation passed")

(* ---------------------------------------------------------------------- *)
(* kmalloc: the walk of the block list                                     *)
(* ---------------------------------------------------------------------- *)
\* C26: when the walk of kmalloc(size) reaches a block with a wrong sentinel
\* before any free block that holds the required total, kmalloc returns NULL
\* without growing the heap, and the heap descriptor, every block header, the
\* page tables and the frame allocator are as before the call
C26_CorruptionAbortsKmalloc ==
    [][(/\ last'.op = "kmalloc" /\ last'.arg # ZERO32 /\ heap.initialized
        /\ \E s \in {St} : \E list \in {BlockSummary(s)} : \E k \in DOMAIN list :
              /\ Magic(s, list[k].addr) # HEAP_BLOCK_MAGIC
              /\ \A j \in 1 .. k - 1 :
                    /\ Magic(s, list[j].addr) = HEAP_BLOCK_MAGIC
                    /\ ~(list[j].is_free
                         /\ Ge32(list[j].size, RequiredTotal(last'.arg))))
       => /\ last'.ret = NULL /\ last'.grown = 0
          /\ HeapUntouched
          /\ phys_allocator' = phys_allocator
          /\ kernel_tables' = kernel_tables
          /\ kernel_directory' = kernel_directory]_vars

\* C27: kmalloc is first-fit: when at least one free block of the list has a
\* size of at least the required total (size rounded up to 4, plus the
\* header), kmalloc returns the payload address of the lowest-addressed such
\* block and does not grow the heap
C27_FirstFit ==
    [][(/\ last'.op = "kmalloc" /\ last'.arg # ZERO32 /\ heap.initialized
        /\ \E k \in DOMAIN last'.before :
              /\ last'.before[k].is_free
              /\ Ge32(last'.before[k].size, RequiredTotal(last'.arg)))
       => \E list \in {last'.before} :
          \E fits \in {{list[k].addr : k \in {i \in DOMAIN list :
                            /\ list[i].is_free
                            /\ Ge32(list[i].size, RequiredTotal(last'.arg))}}} :
          \E lowest \in {a \in fits : \A b \in fits : Le32(a, b)} :
              /\ last'.ret = Add32(lowest, U32(HEADER_SIZE))
              /\ last'.grown = 0
              /\ heap'.end_addr = heap.end_addr
              /\ phys_allocator' = phys_allocator]_vars
\* C27: a kmalloc has passed over a free block that is too small and taken a
\* later one
C27_Witness ==
    /\ last.op = "kmalloc" /\ last.ret # NULL /\ halted = "no"
    /\ \E k \in DOMAIN last.before :
          /\ last.before[k].is_free
          /\ Lt32(last.before[k].size, RequiredTotal(last.arg))
          /\ Lt32(last.before[k].addr, last.ret)

\* C28: a kmalloc that takes a free block of size S of the list it found,
\* for the required total T (size rounded up to 4, plus the header), without
\* growing the heap: when S >= T + header + 16 the block list afterwards is
\* the list before with that block replaced by an allocated block of size T
\* followed by a free block of size S - T at the address T bytes further;
\* otherwise it is the list before with that block marked allocated.  In both
\* cases the sizes of the list add up to what they did before
C28_SplitRule ==
    [][(/\ last'.op = "kmalloc" /\ last'.ret # NULL /\ last'.grown = 0
        /\ \E k \in DOMAIN last'.before :
              last'.before[k].addr = Sub32(last'.ret, U32(HEADER_SIZE)))
       => \E list \in {last'.before} : \E after \in {BlockSummary(St')} :
          \E k \in {i \in DOMAIN list : list[i].addr = Sub32(last'.ret, U32(HEADER_SIZE))} :
          \E T \in {RequiredTotal(last'.arg)} : \E S \in {list[k].size} :
              /\ list[k].is_free
              /\ halted' = "no"
              /\ IF Ge32(S, <<T[1] + (T[2] + HEADER_SIZE + 16) \div PAGE_SIZE,
                            (T[2] + HEADER_SIZE + 16) % PAGE_SIZE>>)
                 THEN after = SubSeq(list, 1, k - 1)
                              \o <<[addr |-> list[k].addr, size |-> T, is_free |-> FALSE],
                                   [addr |-> Add32(list[k].addr, T), size |-> Sub32(S, T),
                                    is_free |-> TRUE]>>
                              \o SubSeq(list, k + 1, Len(list))
                 ELSE after = [list EXCEPT ![k].is_free = FALSE]]_vars

(* ---------------------------------------------------------------------- *)
(* Coalescing                                                              *)
(* ---------------------------------------------------------------------- *)
\* C29: after memory_init and after every call that has returned, no block
\* of the list and its successor are both free
C29_NoAdjacentFreeBlocks ==
    (heap.initialized /\ halted = "no") =>
        \E list \in {BlockSummary(St)} :
            \A k \in 1 .. Len(list) - 1 : ~(list[k].is_free /\ list[k + 1].is_free)
\* C29: a live block has been freed and merged into the free block before it
\* (its sentinel has been cleared)
C29_Witness ==
    /\ heap.initialized /\ halted = "no"
    /\ last.op = "kfree" /\ last.live
    /\ Magic(St, Sub32(last.arg, U32(HEADER_SIZE))) = ZERO32
    /\ Len(BlockSummary(St)) >= 1

\* C30: every frame below the first-free hint is allocated, before and after
\* every step; allocate_frame returns the lowest clear bit of the whole bitmap
\* (0 when there is none) and moves the hint by one exactly when that frame
\* was the hinted one; free_frame moves the hint only to the index of a frame
\* it freed that lies below the hint
C30_HintInvariant ==
    [][LET BelowHintAllocated(a) ==
               \A p \in 0 .. a.total_pages - 1 : p < a.first_free_page => p \in a.bitmap
           pa == phys_allocator
           clear == {p \in 0 .. pa.total_pages - 1 : p \notin pa.bitmap}
           hint == pa.first_free_page
           hint2 == phys_allocator'.first_free_page
       IN  /\ BelowHintAllocated(pa)
           /\ BelowHintAllocated(phys_allocator')
           /\ last'.op = "allocate_frame" =>
                 /\ last'.ret = (IF clear = {} THEN ZERO32 ELSE PageMul(MinOf(clear)))
                 /\ hint2 = (IF clear # {} /\ MinOf(clear) = hint THEN hint + 1 ELSE hint)
           /\ last'.op = "free_frame" =>
                 \/ hint2 = hint
                 \/ /\ hint2 = PageOf(last'.arg)
                    /\ hint2 < hint
                    /\ last'.arg[2] = 0
                    /\ hint2 \in pa.bitmap
                    /\ hint2 \notin phys_allocator'.bitmap]_vars
\* C30: allocate_frame has just returned the hinted frame after free_frame had
\* lowered the hint below the first MiB, and the hint moved one past it
C30_Witness ==
    /\ last.op = "allocate_frame"
    /\ last.claimed
    /\ phys_allocator.first_free_page = PageOf(last.ret) + 1
    /\ phys_allocator.first_free_page <= 256

\* C31: free_frame leaves bitmap, used count and hint as they were when the
\* address is not 4096-aligned, when its frame index is not below
\* total_pages or when the frame's bit is clear; otherwise it clears that one
\* bit and decrements the used count by one; the used count never falls
\* below the number of set bits
C31_FreeFrameGuards ==
    [][last'.op = "free_frame" =>
         LET pa == phys_allocator
             a == last'.arg
             page == PageOf(a)
         IN  /\ (a[2] # 0 \/ page >= pa.total_pages \/ page \notin pa.bitmap)
                   => phys_allocator' = pa
             /\ (a[2] = 0 /\ page < pa.total_pages /\ page \in pa.bitmap)
                   => /\ phys_allocator'.bitmap = pa.bitmap \ {page}
                      /\ phys_allocator'.used_pages = pa.used_pages - 1
                      /\ phys_allocator'.total_pages = pa.total_pages
             /\ phys_allocator'.used_pages >= Cardinality(phys_allocator'.bitmap)]_vars
\* C31: free_frame has just been given, for the second time in a row, the
\* aligned in-range address of a frame it had freed
C31_Witness ==
    /\ last.op = "free_frame"
    /\ last.second
    /\ last.arg[2] = 0
    /\ PageOf(last.arg) < phys_allocator.total_pages
    /\ PageOf(last.arg) \notin phys_allocator.bitmap

RemapVirt == {Word(1, 0), Word(1280, 0), Word(1281, 0)}
NextRemap ==
    \/ \E v \in RemapVirt, p \in MapPhys, flags \in {U32(3), U32(2)} : MapPage(v, p, flags)
    \/ \E v \in RemapVirt : UnmapPage(v)
SpecRemap == InitPaging /\ [][NextRemap]_vars

CrossSizes == {U32(1048463), U32(2097152)}
NextCross ==
    \/ \E size \in CrossSizes : Kmalloc(size)
    \/ \E ptr \in SeqSet(ptrs) : Kfree(ptr)
SpecCross == InitWith({MapBig, MapOfFrames(1289)}, {0}) /\ [][NextCross]_vars

\* C34: once heap_init has succeeded, every page of the arena
\* [start_addr, end_addr) is mapped present, to a frame whose bitmap bit is
\* set, and no two pages of the arena are mapped to the same frame
C34_ArenaBacked ==
    (heap.initialized /\ halted = "no") =>
        \E s \in {St} :
        \E pages \in {{Word(HEAP_START_ADDR[1] + k, 0) : k \in 0 .. PageOf(s.heap.size) - 1}} :
            /\ \A v \in pages :
                  /\ Mapped(s, v)
                  /\ PageOf(PhysOf(s, v)) \in s.pa.bitmap
            /\ Cardinality({PhysOf(s, v) : v \in pages}) = Cardinality(pages)

\* C35: whenever a step creates a page table while translation is on, the
\* frame taken for it is identity-mapped (it lies below 4 MiB, where virtual
\* and physical addresses coincide), and the step does not end in a page fault
C35_NewTableIdentityMapped ==
    [][paging =>
         \A pd \in (DOMAIN kernel_tables') \ (DOMAIN kernel_tables) :
            \E s \in {St} : \E t \in {kernel_tables'[pd].phys} :
               /\ PageOf(t) < TABLE_ENTRIES
               /\ Mapped(s, t)
               /\ PhysOf(s, t) = t
               /\ halted' # "page fault"]_vars

\* C36: in every state reached from init by kmalloc / kfree / krealloc calls
\* with the kernel running, heap_validate prints "Heap validation passed"
C36_ValidatePassesOnHealthyHeap ==
    (heap.initialized /\ halted = "no") =>
        \E r \in {heap_validate(St)} : r.st.msg = "Heap validation passed"

C38_CallocHoldsProduct ==
    [][(last'.op = "kcalloc" /\ last'.ret # NULL /\ halted' = "no") =>
         LET count == last'.arg
             size == last'.arg2
             low == count[2] * size[2]
             a == IF count[1] > 0 THEN count[1] ELSE size[1]
             b == IF count[1] > 0 THEN size[2] ELSE count[2]
             cross == IF a >= 524288 /\ b >= 2 THEN NUM_PAGES ELSE a * b
             pages == cross + low \div PAGE_SIZE
             product == IF (count[1] > 0 /\ size[1] > 0) \/ pages >= HEAP_MAX_SIZE[1]
                        THEN HEAP_MAX_SIZE
                        ELSE <<pages, low % PAGE_SIZE>>
         IN  \E t \in {St'} :
                /\ Le32(product, heap_get_allocated_size(t, last'.ret))
                /\ \A i \in 0 .. product[1] * PAGE_SIZE + product[2] - 1 :
                      Rd8(t, Add32(last'.ret, U32(i))) = 0]_vars
====
